---- MODULE Spec2Model ----
(***************************************************************************)
(* Bao.js: the per-method route registry (BaoRouter), the middleware chain *)
(* (Middleware), the request Context and the dispatch pipeline             *)
(* (Bao.#serve fetch / error).                                              *)
(*                                                                         *)
(* Strings that the code inspects character by character (route patterns   *)
(* and request paths) are sequences of one-character strings; all other    *)
(* strings are TLA+ strings.                                                *)
(***************************************************************************)
EXTENDS Integers, Sequences, FiniteSets, TLC

VARIABLES
  trees,            \* BaoRouter.trees: method -> route tree
  before,           \* Middleware.#before
  after,            \* Middleware.#after
  notFoundHandler,  \* Bao.notFoundHandler (field of the application)
  errorHandler,     \* Bao.errorHandler (field of the application)
  served,           \* what Bao.#serve captured when listen() was called
  reqs,             \* the requests given to fetch: id -> pipeline state
  nreg,             \* number of route registrations made so far
  regErr,           \* whether the last registration call threw
  lastPath,         \* the path given to the last registration call
  regs,             \* the registration calls that returned, in call order
  found,            \* the result of the last BaoRouter.find call
  cx,               \* Context objects used on their own (heap of Contexts)
  cxlog             \* the Context operations applied in cx, in call order

vars == <<trees, before, after, notFoundHandler, errorHandler, served, reqs,
          nreg, regErr, lastPath, regs, found, cx, cxlog>>

routerVars == <<trees, nreg, regErr, lastPath, regs, found>>
chainVars == <<before, after>>
appVars == <<notFoundHandler, errorHandler, served>>
ctxVars == <<cx, cxlog>>

-----------------------------------------------------------------------------
(* Bounds *)

MaxMw == 2        \* middleware registered per list
MaxRoutes == 1    \* route registrations in the dispatch specification
MaxRegs == 2      \* registration calls in the router specification
MaxOps == 3       \* Context operations applied in the Context specification
MaxCtx == 2       \* Context objects created in the Context specification

-----------------------------------------------------------------------------
(* Path strings *)

PRoot == <<"/">>
PA == <<"/", "a">>
PAB == <<"/", "a", "/", "b">>
PParam == <<"/", ":", "i">>
PWild == <<"/", "*", "r">>
PMissing == <<"/", "m">>
PNoSlash == <<"a">>

\* the "/"-delimited segments of a path: the non-empty tokens between "/"
Token(tok) == IF tok = <<>> THEN <<>> ELSE <<tok>>

RECURSIVE SplitFrom(_, _, _)
SplitFrom(path, i, tok) ==
  IF i > Len(path) THEN Token(tok)
  ELSE IF path[i] = "/" THEN Token(tok) \o SplitFrom(path, i + 1, <<>>)
  ELSE SplitFrom(path, i + 1, Append(tok, path[i]))

Segments(path) == SplitFrom(path, 1, <<>>)

\* segments.join("/")
RECURSIVE Join(_)
Join(segs) ==
  IF Len(segs) = 0 THEN <<>>
  ELSE IF Len(segs) = 1 THEN segs[1]
  ELSE segs[1] \o <<"/">> \o Join(Tail(segs))

-----------------------------------------------------------------------------
(* Route tree (RouteNode / RouteTree)                                      *)
(* A tree is a function from node positions to nodes.  A position is the   *)
(* sequence of child keys from the root; a node has at most one Param and  *)
(* one Wildcard child, so their keys carry no text.                        *)

NoHandler == "null"

SegKind(tok) ==
  IF Len(tok) > 0 /\ tok[1] = ":" THEN "Param"
  ELSE IF Len(tok) > 0 /\ tok[1] = "*" THEN "Wildcard"
  ELSE "Static"

SegName(tok) == IF SegKind(tok) = "Static" THEN <<>> ELSE Tail(tok)

StaticKey(tok) == [kind |-> "Static", text |-> tok]
ParamKey == [kind |-> "Param", text |-> <<>>]
WildcardKey == [kind |-> "Wildcard", text |-> <<>>]

KeyOf(tok) ==
  IF SegKind(tok) = "Param" THEN ParamKey
  ELSE IF SegKind(tok) = "Wildcard" THEN WildcardKey
  ELSE StaticKey(tok)

\* new Node()
NewNode == (<<>> :> [name |-> <<>>, handler |-> NoHandler])

\* a test that lets every pattern through
NonTerminalWildcardIgnored(segs) == FALSE

\* a Wildcard segment that is not the last segment of the pattern
NonTerminalWildcard(segs) ==
  \E i \in 1..(Len(segs) - 1) : SegKind(segs[i]) = "Wildcard"

\* an addRoute that leaves a handler already bound at the pattern's node
addRouteKeepsFirst(tree, pattern, handler) ==
  LET segs == Segments(pattern)
      n == Len(segs)
      keys == [i \in 1..n |-> KeyOf(segs[i])]
      pos(i) == SubSeq(keys, 1, i)
      walked == {pos(i) : i \in 0..n}
      depth(q) == Len(q)
  IN IF NonTerminalWildcard(segs)
     THEN [ok |-> FALSE, tree |-> tree]
     ELSE [ok |-> TRUE,
           tree |-> [q \in (DOMAIN tree) \cup walked |->
             IF q \in DOMAIN tree /\ tree[q].handler # NoHandler THEN tree[q]
             ELSE IF q \in walked
             THEN [name |-> IF depth(q) = 0 THEN <<>> ELSE SegName(segs[depth(q)]),
                   handler |-> IF depth(q) = n THEN handler ELSE NoHandler]
             ELSE tree[q]]]

\* Node.addRoute(path, handler): [ok, tree]
addRoute(tree, pattern, handler) ==
  LET segs == Segments(pattern)
      n == Len(segs)
      keys == [i \in 1..n |-> KeyOf(segs[i])]
      pos(i) == SubSeq(keys, 1, i)
      walked == {pos(i) : i \in 0..n}
      depth(q) == Len(q)
  IN IF NonTerminalWildcard(segs)
     THEN [ok |-> FALSE, tree |-> tree]
     ELSE [ok |-> TRUE,
           tree |-> [q \in (DOMAIN tree) \cup walked |->
             IF q \in walked
             THEN [name |-> IF depth(q) = 0 THEN <<>> ELSE SegName(segs[depth(q)]),
                   handler |-> IF depth(q) = n THEN handler
                               ELSE IF q \in DOMAIN tree THEN tree[q].handler
                               ELSE NoHandler]
             ELSE tree[q]]]

NoParams == <<>>

\* const NOT_FOUND = { handler: null, params: {} }
NOT_FOUND == [handler |-> NoHandler, params |-> NoParams]

\* a wildcard value that stops at the end of the first remaining segment
WildcardValueFirstSegment(segs) == <<"/">> \o Head(segs)

\* what a Wildcard captures of the remaining segments: the rest of the path
\* from its "/" on (GET /posts/123/abc => /123/abc)
WildcardValue(segs) == <<"/">> \o Join(segs)

\* a walk that settles for the handler of the last node it reached
RECURSIVE WalkLongestPrefix(_, _, _, _)
WalkLongestPrefix(tree, node, segs, params) ==
  LET here == IF tree[node].handler # NoHandler
              THEN [handler |-> tree[node].handler, params |-> params]
              ELSE NOT_FOUND
  IN IF Len(segs) = 0 THEN here
     ELSE LET s == Head(segs)
              st == Append(node, StaticKey(s))
              pk == Append(node, ParamKey)
              wk == Append(node, WildcardKey)
          IN IF st \in DOMAIN tree
             THEN WalkLongestPrefix(tree, st, Tail(segs), params)
             ELSE IF pk \in DOMAIN tree
             THEN WalkLongestPrefix(tree, pk, Tail(segs), (tree[pk].name :> s) @@ params)
             ELSE IF wk \in DOMAIN tree
             THEN [handler |-> tree[wk].handler,
                   params |-> (tree[wk].name :> WildcardValue(segs)) @@ params]
             ELSE here

\* a walk in which a Param capture replaces the captures made before it
RECURSIVE WalkParamsReplaced(_, _, _, _)
WalkParamsReplaced(tree, node, segs, params) ==
  IF Len(segs) = 0
  THEN IF tree[node].handler # NoHandler
       THEN [handler |-> tree[node].handler, params |-> params]
       ELSE NOT_FOUND
  ELSE LET s == Head(segs)
           st == Append(node, StaticKey(s))
           pk == Append(node, ParamKey)
           wk == Append(node, WildcardKey)
       IN IF st \in DOMAIN tree
          THEN WalkParamsReplaced(tree, st, Tail(segs), params)
          ELSE IF pk \in DOMAIN tree
          THEN WalkParamsReplaced(tree, pk, Tail(segs), (tree[pk].name :> s))
          ELSE IF wk \in DOMAIN tree
          THEN [handler |-> tree[wk].handler,
                params |-> (tree[wk].name :> WildcardValue(segs)) @@ params]
          ELSE NOT_FOUND

\* a walk that tries the Wildcard child before the Param child
RECURSIVE WalkWildcardFirst(_, _, _, _)
WalkWildcardFirst(tree, node, segs, params) ==
  IF Len(segs) = 0
  THEN IF tree[node].handler # NoHandler
       THEN [handler |-> tree[node].handler, params |-> params]
       ELSE NOT_FOUND
  ELSE LET s == Head(segs)
           st == Append(node, StaticKey(s))
           pk == Append(node, ParamKey)
           wk == Append(node, WildcardKey)
       IN IF st \in DOMAIN tree
          THEN WalkWildcardFirst(tree, st, Tail(segs), params)
          ELSE IF wk \in DOMAIN tree
          THEN [handler |-> tree[wk].handler,
                params |-> (tree[wk].name :> WildcardValue(segs)) @@ params]
          ELSE IF pk \in DOMAIN tree
          THEN WalkWildcardFirst(tree, pk, Tail(segs), (tree[pk].name :> s) @@ params)
          ELSE NOT_FOUND

\* the descent of Node.search: Static child, else Param child, else Wildcard
RECURSIVE Walk(_, _, _, _)
Walk(tree, node, segs, params) ==
  IF Len(segs) = 0
  THEN IF tree[node].handler # NoHandler
       THEN [handler |-> tree[node].handler, params |-> params]
       ELSE NOT_FOUND
  ELSE LET s == Head(segs)
           st == Append(node, StaticKey(s))
           pk == Append(node, ParamKey)
           wk == Append(node, WildcardKey)
       IN IF st \in DOMAIN tree
          THEN Walk(tree, st, Tail(segs), params)
          ELSE IF pk \in DOMAIN tree
          THEN Walk(tree, pk, Tail(segs), (tree[pk].name :> s) @@ params)
          ELSE IF wk \in DOMAIN tree
          THEN [handler |-> tree[wk].handler,
                params |-> (tree[wk].name :> WildcardValue(segs)) @@ params]
          ELSE NOT_FOUND

\* Node.search(path)
search(tree, path) == Walk(tree, <<>>, Segments(path), NoParams)

-----------------------------------------------------------------------------
(* BaoRouter *)

\* a method list that lacks PATCH
httpMethodsWithoutPatch ==
  <<"GET", "HEAD", "POST", "PUT", "DELETE", "CONNECT", "OPTIONS", "TRACE">>

httpMethods ==
  <<"GET", "HEAD", "POST", "PUT", "DELETE", "CONNECT", "OPTIONS", "TRACE", "PATCH">>

StartsWithSlash(path) == Len(path) > 0 /\ path[1] = "/"

HasTree(ts, method) == method \in DOMAIN ts

\* an on that makes a new tree for the method at every call
onFreshTree(ts, method, path, handler) ==
  IF ~StartsWithSlash(path)
  THEN [ok |-> FALSE, trees |-> ts]
  ELSE LET r == addRoute(NewNode, path, handler)
       IN [ok |-> r.ok, trees |-> (method :> r.tree) @@ ts]

\* an on that makes the method's tree before it tests the path
onTreeFirst(ts, method, path, handler) ==
  LET t0 == IF HasTree(ts, method) THEN ts ELSE (method :> NewNode) @@ ts
      r == addRoute(t0[method], path, handler)
  IN IF ~StartsWithSlash(path)
     THEN [ok |-> FALSE, trees |-> t0]
     ELSE [ok |-> r.ok, trees |-> [t0 EXCEPT ![method] = r.tree]]

\* an on that does not look at the first character of the path
onUnchecked(ts, method, path, handler) ==
  LET t0 == IF HasTree(ts, method) THEN ts ELSE (method :> NewNode) @@ ts
      r == addRoute(t0[method], path, handler)
  IN [ok |-> r.ok, trees |-> [t0 EXCEPT ![method] = r.tree]]

\* BaoRouter.on(method, path, handler): [ok, trees]; ok = FALSE when it threw
on(ts, method, path, handler) ==
  IF ~StartsWithSlash(path)
  THEN [ok |-> FALSE, trees |-> ts]
  ELSE LET t0 == IF HasTree(ts, method) THEN ts ELSE (method :> NewNode) @@ ts
           r == addRoute(t0[method], path, handler)
       IN [ok |-> r.ok, trees |-> [t0 EXCEPT ![method] = r.tree]]

\* a ws that binds the handlers in the GET tree
wsInGetTree(ts, path, handlers) == on(ts, "GET", path, handlers)

\* BaoRouter.ws(path, handlers)
ws(ts, path, handlers) ==
  IF ~StartsWithSlash(path)
  THEN [ok |-> FALSE, trees |-> ts]
  ELSE LET t0 == IF HasTree(ts, "WS") THEN ts ELSE ("WS" :> NewNode) @@ ts
           r == addRoute(t0["WS"], path, handlers)
       IN [ok |-> r.ok, trees |-> [t0 EXCEPT !["WS"] = r.tree]]

\* BaoRouter.any(path, handler): the for loop over httpMethods from index i
RECURSIVE anyFrom(_, _, _, _)
anyFrom(ts, i, path, handler) ==
  IF i > Len(httpMethods) THEN [ok |-> TRUE, trees |-> ts]
  ELSE LET r == on(ts, httpMethods[i], path, handler)
       IN IF r.ok THEN anyFrom(r.trees, i + 1, path, handler) ELSE r

any(ts, path, handler) == anyFrom(ts, 1, path, handler)

\* a find that looks a method without a tree up in the GET tree
findFallsBackToGet(ts, method, path) ==
  IF HasTree(ts, method) THEN search(ts[method], path)
  ELSE IF HasTree(ts, "GET") THEN search(ts["GET"], path)
  ELSE NOT_FOUND

\* BaoRouter.find(method, path)
find(ts, method, path) ==
  IF HasTree(ts, method) THEN search(ts[method], path) ELSE NOT_FOUND

\* a find call that makes the tree of a method that has none
findCallLazyTree(ts, method, path) ==
  LET t0 == IF HasTree(ts, method) THEN ts ELSE (method :> NewNode) @@ ts
  IN [result |-> find(t0, method, path), trees |-> t0]

\* a BaoRouter.find(method, path) call: what it returns and this.trees after
\* it (find has no assignment)
findCall(ts, method, path) == [result |-> find(ts, method, path), trees |-> ts]

\* Router.register(method, path, handler), called by Bao.#handleMethod
register(ts, method, path, handler) ==
  IF method = "ANY" THEN any(ts, path, handler) ELSE on(ts, method, path, handler)

-----------------------------------------------------------------------------
(* Response and Context *)

Null == [kind |-> "null"]

NoHeaders == <<>>
NoOptions == [status |-> 0, headers |-> NoHeaders]   \* status 0: not given
Status(s) == [status |-> s, headers |-> NoHeaders]

NullBody == [type |-> "null", value |-> "", indent |-> 0]
Text(t) == [type |-> "text", value |-> t, indent |-> 0]
\* JSON.stringify(json, null, indent)
Stringify(json, indent) == [type |-> "json", value |-> json, indent |-> indent]

\* new Response(body, options)
Response(body, options) ==
  [kind |-> "Response",
   status |-> IF options.status = 0 THEN 200 ELSE options.status,
   body |-> body,
   headers |-> options.headers]

\* new Context(req, server)
NewContext(req) ==
  [req |-> req, method |-> req.method, path |-> req.path,
   res |-> Null, extra |-> <<>>, params |-> NoParams, forceSend |-> FALSE]

\* A Context operation acts on the Context at index i of a heap of Contexts
\* and yields the heap afterwards, the index of the Context it returns and
\* whether it threw.
Returned(heap, i) == [heap |-> heap, ret |-> i, threw |-> FALSE]
Thrown(heap, i) == [heap |-> heap, ret |-> i, threw |-> TRUE]

\* a forceSend that flips the flag instead of setting it
forceSendToggles(heap, i) == Returned([heap EXCEPT ![i].forceSend = ~@], i)

\* a forceSend that returns a locked copy instead of the Context itself
forceSendCopies(heap, i) ==
  Returned(Append(heap, [heap[i] EXCEPT !.forceSend = TRUE]), Len(heap) + 1)

forceSend(heap, i) == Returned([heap EXCEPT ![i].forceSend = TRUE], i)

isLocked(heap, i) == heap[i].forceSend

sendEmpty(heap, i, options) ==
  Returned([heap EXCEPT ![i].res = Response(NullBody, options)], i)

JsonHeaders(options) == options.headers @@ ("Content-Type" :> "application/json")

sendPrettyJson(heap, i, json, options) ==
  Returned([heap EXCEPT ![i].res =
    Response(Stringify(json, 2), [options EXCEPT !.headers = JsonHeaders(options)])], i)

sendJson(heap, i, json, options) ==
  Returned([heap EXCEPT ![i].res =
    Response(Stringify(json, 0), [options EXCEPT !.headers = JsonHeaders(options)])], i)

sendText(heap, i, text, options) ==
  Returned([heap EXCEPT ![i].res = Response(Text(text), options)], i)

sendRaw(heap, i, res) == Returned([heap EXCEPT ![i].res = res], i)

\* Context.accepts(type): headers.get("accept") is null without the header
HasAccept(ctx) == ctx.req.accept # "none"
accepts(ctx, type) ==
  \/ type = "html" /\ ctx.req.accept = "text/html"
  \/ type = "text" /\ ctx.req.accept \in {"text/html", "text/plain"}

encodeURI(url) == IF url = "/a b" THEN "/a%20b" ELSE url

\* Context.redirect(url, alt, options); alt = "" stands for no alt
redirect(heap, i, url, alt, options) ==
  LET ctx == heap[i]
      target == IF url = "back"
                THEN IF ctx.req.referrer # "" THEN ctx.req.referrer
                     ELSE IF alt # "" THEN alt ELSE "/"
                ELSE url
      opts == [status |-> IF options.status = 0 THEN 302 ELSE options.status,
               headers |-> ("Location" :> encodeURI(target)) @@ options.headers]
      body == IF accepts(ctx, "html") THEN Text("html:" \o target)
              ELSE IF accepts(ctx, "text") THEN Text("text:" \o target)
              ELSE NullBody
  IN IF ~HasAccept(ctx) THEN Thrown(heap, i)
     ELSE Returned([heap EXCEPT ![i].res = Response(body, opts)], i)

-----------------------------------------------------------------------------
(* Middleware chain *)

Before == "Before"
After == "After"

\* a register that puts the function at the front of its list (unshift)
registerMwFront(b, a, fn, pos) ==
  IF pos = Before
  THEN [before |-> <<fn>> \o b, after |-> a, ret |-> Len(b) + 1]
  ELSE [before |-> b, after |-> <<fn>> \o a, ret |-> Len(a) + 1]

\* Middleware.register(fn, pos): the lists afterwards and the value returned
registerMw(b, a, fn, pos) ==
  IF pos = Before
  THEN [before |-> Append(b, fn), after |-> a, ret |-> Len(b) + 1]
  ELSE [before |-> b, after |-> Append(a, fn), ret |-> Len(a) + 1]

\* a loop that visits the list from its end
nthReversed(list, i) == list[Len(list) + 1 - i]

\* the i-th function visited by: for (const middleware of list)
nth(list, i) == list[i]

\* a loop that does not test the lock
mayInvokeAlways(heap, cur) == TRUE

\* a test that fails once any Context of the heap is locked
mayInvokeNoneLocked(heap, cur) == \A j \in DOMAIN heap : ~isLocked(heap, j)

\* the test made before each invocation in Middleware.before / Middleware.after
mayInvoke(heap, cur) == ~isLocked(heap, cur)

-----------------------------------------------------------------------------
(* What a handler-shaped function (IHandler) may do with the Context it is *)
(* given.  The functions are supplied by the application; each invocation  *)
(* behaves in one of these ways.                                           *)

\* ctx.res.headers.set(name, value): a TypeError when ctx.res is null
setHeader(heap, i, name, value) ==
  IF heap[i].res = Null THEN Thrown(heap, i)
  ELSE Returned([heap EXCEPT ![i].res.headers = (name :> value) @@ @], i)

\* the headers the middleware registered by Bao.cors(config) sets on the
\* response of ctx, in the order of its statements; a joined list stands for
\* itself
CorsHeaders(config, ctx) ==
  LET options == ctx.req.method = "OPTIONS"
      hdr(cond, name, value) == IF cond THEN << <<name, value>> >> ELSE <<>>
  IN hdr(options /\ Len(config.allowedHeaders) > 0,
         "Access-Control-Allow-Headers", config.allowedHeaders)
     \o hdr(options /\ Len(config.methods) > 0,
            "Access-Control-Allow-Methods", config.methods)
     \o hdr(options /\ config.maxAge # 0,
            "Access-Control-Max-Age", ToString(config.maxAge))
     \o hdr(config.credentials, "Access-Control-Allow-Credentials", "true")
     \o hdr(ctx.req.origin # "" /\ ctx.req.origin \in config.origins,
            "Access-Control-Allow-Origin", ctx.req.origin)
     \o hdr(Len(config.exposedHeaders) > 0,
            "Access-Control-Expose-Headers", config.exposedHeaders)

RECURSIVE setHeaders(_, _, _)
setHeaders(heap, i, hdrs) ==
  IF hdrs = <<>> THEN Returned(heap, i)
  ELSE LET r == setHeader(heap, i, Head(hdrs)[1], Head(hdrs)[2])
       IN IF r.threw THEN r ELSE setHeaders(r.heap, i, Tail(hdrs))

\* the middleware registered by Bao.cors(config), given the Context at i
Cors(config, heap, i) ==
  LET r == setHeaders(heap, i, CorsHeaders(config, heap[i]))
  IN IF r.threw THEN r
     ELSE IF heap[i].req.method = "OPTIONS"
     THEN forceSend(sendEmpty(r.heap, i, Status(204)).heap, i)
     ELSE Returned(r.heap, i)

MwKinds == {"write", "text", "deny", "deny404", "force", "throw"}

\* how an invocation of a registered function may behave: the function that
\* Bao.cors registered is the one above, any other is the application's
KindsOf(fn) == IF fn[1] = "cors" THEN {"cors"} ELSE MwKinds
HandlerKinds == {"text", "send404", "textForce", "force", "pass", "throw"}

HelloWorld == "Hello World!"

Behave(kind, heap, i, tag) ==
  CASE kind = "write" -> Returned([heap EXCEPT ![i].extra = ("k" :> tag) @@ @], i)
    [] kind = "text" -> sendText(heap, i, HelloWorld, NoOptions)
    [] kind = "send404" -> sendEmpty(heap, i, Status(404))
    [] kind = "deny" -> forceSend(sendEmpty(heap, i, Status(403)).heap, i)
    [] kind = "deny404" -> forceSend(sendEmpty(heap, i, Status(404)).heap, i)
    [] kind = "textForce" -> forceSend(sendText(heap, i, HelloWorld, NoOptions).heap, i)
    [] kind = "force" -> forceSend(heap, i)
    [] kind = "pass" -> Returned(heap, i)
    [] kind = "throw" -> Thrown(heap, i)
    [] kind = "cors" -> Cors(tag.fn[2], heap, i)
    [] kind = "swap" -> Returned(Append(heap, NewContext(heap[i].req)), Len(heap) + 1)
    [] kind = "forceSwap" ->
         LET locked == forceSend(heap, i).heap
         IN Returned(Append(locked, NewContext(locked[i].req)), Len(locked) + 1)
    [] kind = "hang" -> Returned(heap, i)

-----------------------------------------------------------------------------
(* Bao: handlers of the application *)

\* a default not-found handler that leaves the status at 200
NotFoundResponseNoStatus(handler) ==
  IF handler = "default"
  THEN Response(Text("404 Not Found"), NoOptions)
  ELSE Response(Text("Route not found..."), NoOptions)

\* Bao.notFoundHandler: the default, or the one the application assigned
NotFoundResponse(handler) ==
  IF handler = "default"
  THEN Response(Text("404 Not Found"), Status(404))
  ELSE Response(Text("Route not found..."), NoOptions)

\* a default error handler that leaves the status at 200
ErrorResponseNoStatus(handler) ==
  IF handler = "default"
  THEN Response(Text("An error occurred! Please check the server logs."), NoOptions)
  ELSE Response(Text("Oh no! An error has occurred..."), NoOptions)

\* Bao.errorHandler: the default, or the one the application assigned
ErrorResponse(handler) ==
  IF handler = "default"
  THEN Response(Text("An error occurred! Please check the server logs."), Status(500))
  ELSE Response(Text("Oh no! An error has occurred..."), NoOptions)

\* Router.handle's result: the response of the final Context; an unset
\* response is handed to fetch as a response with the not-found status
handleResult(ctx) ==
  IF ctx.res = Null THEN Response(NullBody, Status(404)) ELSE ctx.res

\* a fetch that calls the default not-found handler, not the captured one
fetchResultDefaultHandler(res, handler) ==
  IF res.status = 404 THEN NotFoundResponse("default") ELSE res

\* a fetch that returns the pipeline's response whatever its status
fetchResultNoSubstitution(res, handler) == res

\* a fetch that substitutes for every status but 404
fetchResultInverted(res, handler) ==
  IF res.status # 404 THEN NotFoundResponse(handler) ELSE res

\* fetch: return res.status === 404 ? notFoundHandler(ctx) : res
fetchResult(res, handler) ==
  IF res.status = 404 THEN NotFoundResponse(handler) ELSE res

-----------------------------------------------------------------------------
(* Inputs *)

Handlers == {"h1", "h2"}         \* route handlers of the application
AppHandlers == {"h1"}            \* the handlers the dispatched application binds
ReqIds == {1}                    \* the requests followed through the pipeline
ReqMethods == {"GET", "POST"}
ReqPaths == {PRoot, PMissing}
RoutePaths == {PRoot}

Request(method, path) ==
  [method |-> method, path |-> path, accept |-> "none", referrer |-> "",
   origin |-> "", upgrade |-> ""]

-----------------------------------------------------------------------------
(* State after construction: new Bao() *)

NotServing == [listening |-> FALSE, errorHandler |-> "default",
               notFoundHandler |-> "default"]

NoFind == [method |-> "", path |-> <<>>, result |-> NOT_FOUND]

Init ==
  /\ trees = <<>>
  /\ before = <<>>
  /\ after = <<>>
  /\ notFoundHandler = "default"
  /\ errorHandler = "default"
  /\ served = NotServing
  /\ reqs = <<>>
  /\ nreg = 0
  /\ regErr = FALSE
  /\ lastPath = <<>>
  /\ regs = <<>>
  /\ found = NoFind
  /\ cx = <<>>
  /\ cxlog = <<>>

-----------------------------------------------------------------------------
(* Application setup: Bao.before, Bao.after, Bao.get, Bao.post, handler    *)
(* assignment, Bao.listen.  Setup is complete when listen() is called.     *)

\* every registration passes a function of its own: the n-th function
\* passed to before() is <<"before", n>>, to after() <<"after", n>>
NoFn == <<>>
FreshBefore == <<"before", Len(before) + 1>>
FreshAfter == <<"after", Len(after) + 1>>

BaoBefore(fn) ==
  /\ ~served.listening
  /\ Len(before) < MaxMw
  /\ before' = registerMw(before, after, fn, Before).before
  /\ after' = registerMw(before, after, fn, Before).after
  /\ UNCHANGED <<routerVars, appVars, reqs, ctxVars>>

BaoAfter(fn) ==
  /\ ~served.listening
  /\ Len(after) < MaxMw
  /\ before' = registerMw(before, after, fn, After).before
  /\ after' = registerMw(before, after, fn, After).after
  /\ UNCHANGED <<routerVars, appVars, reqs, ctxVars>>

Reg(method, path, handler) == [method |-> method, path |-> path, handler |-> handler]

\* the routes a registration call binds when it returns
RegsOf(method, path, handler) ==
  IF method = "ANY"
  THEN [i \in DOMAIN httpMethods |-> Reg(httpMethods[i], path, handler)]
  ELSE <<Reg(method, path, handler)>>

\* a registration call with outcome r = [ok, trees]
Registration(r, method, path, handler) ==
  /\ trees' = r.trees
  /\ regErr' = ~r.ok
  /\ lastPath' = path
  /\ regs' = IF r.ok THEN regs \o RegsOf(method, path, handler) ELSE regs
  /\ nreg' = nreg + 1
  /\ UNCHANGED <<found, chainVars, appVars, reqs, ctxVars>>

\* Bao.#handleMethod(method, path, handler)
handleMethod(method, path, handler) ==
  Registration(register(trees, method, path, handler), method, path, handler)

BaoGet(path, handler) ==
  /\ ~served.listening
  /\ nreg < MaxRoutes
  /\ handleMethod("GET", path, handler)

BaoPost(path, handler) ==
  /\ ~served.listening
  /\ nreg < MaxRoutes
  /\ handleMethod("POST", path, handler)

SetNotFoundHandler ==
  /\ ~served.listening
  /\ notFoundHandler = "default"
  /\ notFoundHandler' = "custom"
  /\ UNCHANGED <<routerVars, chainVars, errorHandler, served, reqs, ctxVars>>

SetErrorHandler ==
  /\ ~served.listening
  /\ errorHandler = "default"
  /\ errorHandler' = "custom"
  /\ UNCHANGED <<routerVars, chainVars, notFoundHandler, served, reqs, ctxVars>>

\* Bao.listen -> Bao.#serve: the handlers are read once, here
Listen ==
  /\ ~served.listening
  /\ served' = [listening |-> TRUE, errorHandler |-> errorHandler,
                notFoundHandler |-> notFoundHandler]
  /\ UNCHANGED <<routerVars, chainVars, notFoundHandler, errorHandler, reqs, ctxVars>>

-----------------------------------------------------------------------------
(* Dispatch of one request *)

\* What is recorded of a Context: its response, its extra and its lock
View(ctx) == [res |-> ctx.res, extra |-> ctx.extra, locked |-> ctx.forceSend]
NoView == [res |-> Null, extra |-> <<>>, locked |-> FALSE]

\* An invocation as recorded in a request's trace.
\* fn: the middleware function (NoFn: none); h: the route or boundary handler;
\* did: how the function behaved; seen: the Context it was given; out: the
\* Context it returned (the Context it was given when it threw)
Event(ev, stage, idx, fn, h, did, seen, out) ==
  [ev |-> ev, stage |-> stage, idx |-> idx, fn |-> fn, h |-> h, did |-> did,
   seen |-> seen, out |-> out]

\* fetch(req, server): let ctx = new Context(req, server); router.handle(ctx)
Fetch(r, method, path) ==
  /\ served.listening
  /\ r \notin DOMAIN reqs
  /\ reqs' = (r :>
       [ctxs |-> <<NewContext(Request(method, path))>>, orig |-> 1, cur |-> 1,
        pc |-> "before", i |-> 1, pending |-> 0, route |-> NOT_FOUND,
        looked |-> FALSE, trace |-> <<>>, sent |-> Null]) @@ reqs
  /\ UNCHANGED <<routerVars, chainVars, appVars, ctxVars>>

\* the state of request q after invoking fn at (stage, idx), which behaves as kind
Invoke(q, stage, idx, fn, h, kind, heap, awaitPc) ==
  LET out == Behave(kind, heap, q.cur, [stage |-> stage, fn |-> fn])
      ev == Event("call", stage, idx, fn, h, kind, View(heap[q.cur]),
                  View(out.heap[out.ret]))
  IN IF out.threw
     THEN [q EXCEPT !.ctxs = out.heap, !.pc = "raised", !.trace = Append(@, ev)]
     ELSE [q EXCEPT !.ctxs = out.heap, !.pending = out.ret, !.pc = awaitPc,
                    !.trace = Append(@, ev)]

\* one iteration of: for (const middleware of list)
\*   if (!ctx.isLocked()) ctx = await Promise.resolve(middleware(ctx));
LoopNext(r, stage, list, awaitPc, donePc) ==
  LET q == reqs[r]
  IN /\ q.pc = stage
     /\ IF q.i > Len(list)
        THEN reqs' = [reqs EXCEPT ![r] = [q EXCEPT !.pc = donePc]]
        ELSE IF ~mayInvoke(q.ctxs, q.cur)
        THEN reqs' = [reqs EXCEPT ![r] = [q EXCEPT !.i = q.i + 1]]
        ELSE \E kind \in KindsOf(nth(list, q.i)) :
               reqs' = [reqs EXCEPT ![r] =
                          Invoke(q, stage, q.i, nth(list, q.i), "", kind, q.ctxs,
                                 awaitPc)]
     /\ UNCHANGED <<routerVars, chainVars, appVars, ctxVars>>

\* a resumption that stays at the middleware it has just invoked
LoopResumeStays(r, stage, awaitPc) ==
  LET q == reqs[r]
      last == q.trace[Len(q.trace)]
  IN /\ q.pc = awaitPc
     /\ reqs' = [reqs EXCEPT ![r] =
          [q EXCEPT !.cur = q.pending, !.pc = stage,
                    !.trace = Append(@, [last EXCEPT !.ev = "ret"])]]
     /\ UNCHANGED <<routerVars, chainVars, appVars, ctxVars>>

\* the awaited middleware result resolves: ctx = <the Context it returned>
LoopResume(r, stage, awaitPc) ==
  LET q == reqs[r]
      last == q.trace[Len(q.trace)]
  IN /\ q.pc = awaitPc
     /\ reqs' = [reqs EXCEPT ![r] =
          [q EXCEPT !.cur = q.pending, !.i = q.i + 1, !.pc = stage,
                    !.trace = Append(@, [last EXCEPT !.ev = "ret"])]]
     /\ UNCHANGED <<routerVars, chainVars, appVars, ctxVars>>

\* Middleware.before(ctx)
BeforeNext(r) == LoopNext(r, "before", before, "beforeAwait", "route")
BeforeResume(r) == LoopResume(r, "before", "beforeAwait")

\* Middleware.after(ctx)
AfterNext(r) == LoopNext(r, "after", after, "afterAwait", "respond")
AfterResume(r) == LoopResume(r, "after", "afterAwait")

\* a lookup step that goes straight to the response when no route is found
RouteMissSkipsAfter(r) ==
  LET q == reqs[r]
      ctx == q.ctxs[q.cur]
      route == find(trees, ctx.method, ctx.path)
      q1 == [q EXCEPT !.route = route, !.looked = TRUE,
                      !.ctxs[q.cur].params = route.params]
  IN /\ q.pc = "route"
     /\ IF isLocked(q.ctxs, q.cur)
        THEN reqs' = [reqs EXCEPT ![r] = [q EXCEPT !.pc = "respond"]]
        ELSE IF route.handler = NoHandler
        THEN reqs' = [reqs EXCEPT ![r] =
                        [q EXCEPT !.route = route, !.looked = TRUE,
                                  !.pc = "respond"]]
        ELSE \E kind \in HandlerKinds :
               reqs' = [reqs EXCEPT ![r] =
                          Invoke(q1, "handler", 1, NoFn, route.handler, kind, q1.ctxs,
                                 "handlerAwait")]
     /\ UNCHANGED <<routerVars, chainVars, appVars, ctxVars>>

\* Router.handle, step (2): if not locked, find the handler and invoke it
Route(r) ==
  LET q == reqs[r]
      ctx == q.ctxs[q.cur]
      route == find(trees, ctx.method, ctx.path)
      q1 == [q EXCEPT !.route = route, !.looked = TRUE,
                      !.ctxs[q.cur].params = route.params]
  IN /\ q.pc = "route"
     /\ IF isLocked(q.ctxs, q.cur)
        THEN reqs' = [reqs EXCEPT ![r] = [q EXCEPT !.pc = "respond"]]
        ELSE IF route.handler = NoHandler
        THEN reqs' = [reqs EXCEPT ![r] =
                        [q EXCEPT !.route = route, !.looked = TRUE,
                                  !.pc = "after", !.i = 1]]
        ELSE \E kind \in HandlerKinds :
               reqs' = [reqs EXCEPT ![r] =
                          Invoke(q1, "handler", 1, NoFn, route.handler, kind, q1.ctxs,
                                 "handlerAwait")]
     /\ UNCHANGED <<routerVars, chainVars, appVars, ctxVars>>

\* Router.handle, step (3): adopt the handler's Context; if not locked, run after
HandlerResume(r) ==
  LET q == reqs[r]
      last == q.trace[Len(q.trace)]
  IN /\ q.pc = "handlerAwait"
     /\ reqs' = [reqs EXCEPT ![r] =
          [q EXCEPT !.cur = q.pending, !.i = 1,
                    !.pc = IF isLocked(q.ctxs, q.pending) THEN "respond" ELSE "after",
                    !.trace = Append(@, [last EXCEPT !.ev = "ret"])]]
     /\ UNCHANGED <<routerVars, chainVars, appVars, ctxVars>>

\* a fetch that reads the application's notFoundHandler field at each request
RespondReadsField(r) ==
  LET q == reqs[r]
      res == handleResult(q.ctxs[q.cur])
      out == fetchResult(res, notFoundHandler)
      evs == IF out = res THEN <<>>
             ELSE <<Event("call", "notFound", 0, NoFn, notFoundHandler, "respond",
                          View(q.ctxs[q.orig]), NoView)>>
  IN /\ q.pc = "respond"
     /\ reqs' = [reqs EXCEPT ![r] =
          [q EXCEPT !.sent = out, !.pc = "done", !.trace = @ \o evs]]
     /\ UNCHANGED <<routerVars, chainVars, appVars, ctxVars>>

\* fetch: const res = await router.handle(ctx);
\*        return res.status === 404 ? notFoundHandler(ctx) : res
Respond(r) ==
  LET q == reqs[r]
      res == handleResult(q.ctxs[q.cur])
      out == fetchResult(res, served.notFoundHandler)
      evs == IF out = res THEN <<>>
             ELSE <<Event("call", "notFound", 0, NoFn, served.notFoundHandler, "respond",
                          View(q.ctxs[q.orig]), NoView)>>
  IN /\ q.pc = "respond"
     /\ reqs' = [reqs EXCEPT ![r] =
          [q EXCEPT !.sent = out, !.pc = "done", !.trace = @ \o evs]]
     /\ UNCHANGED <<routerVars, chainVars, appVars, ctxVars>>

\* error(error): return errorHandler(error)
ErrorBoundary(r) ==
  LET q == reqs[r]
  IN /\ q.pc = "raised"
     /\ reqs' = [reqs EXCEPT ![r] =
          [q EXCEPT !.sent = ErrorResponse(served.errorHandler), !.pc = "done",
                    !.trace = Append(@, Event("call", "error", 0, NoFn,
                                               served.errorHandler, "respond",
                                               NoView, NoView))]]
     /\ UNCHANGED <<routerVars, chainVars, appVars, ctxVars>>

Next ==
  \/ BaoBefore(FreshBefore)
  \/ BaoAfter(FreshAfter)
  \/ \E p \in RoutePaths, h \in AppHandlers : BaoGet(p, h)
  \/ \E p \in RoutePaths, h \in AppHandlers : BaoPost(p, h)
  \/ SetNotFoundHandler
  \/ SetErrorHandler
  \/ Listen
  \/ \E r \in ReqIds, m \in ReqMethods, p \in ReqPaths : Fetch(r, m, p)
  \/ \E r \in DOMAIN reqs : BeforeNext(r)
  \/ \E r \in DOMAIN reqs : BeforeResume(r)
  \/ \E r \in DOMAIN reqs : Route(r)
  \/ \E r \in DOMAIN reqs : HandlerResume(r)
  \/ \E r \in DOMAIN reqs : AfterNext(r)
  \/ \E r \in DOMAIN reqs : AfterResume(r)
  \/ \E r \in DOMAIN reqs : Respond(r)
  \/ \E r \in DOMAIN reqs : ErrorBoundary(r)

Spec == Init /\ [][Next]_vars

-----------------------------------------------------------------------------
(* The router on its own: registrations and lookups in any order *)

PWildMid == <<"/", "*", "r", "/", "b">>
RouterMethods == {"GET", "POST"}
FindMethods == {"GET", "POST", "PUT", "WS"}
RouterPatterns == {PA, PParam, PWild, PWildMid, PNoSlash}
AnyPatterns == {PA, PNoSlash}
WsPatterns == {PA, PParam}
FindPaths == {PA, PAB, PMissing}

\* every registration call passes a closure of its own
FreshHandler == "h" \o ToString(nreg + 1)
FreshWsHandlers == "w" \o ToString(nreg + 1)

RouterOn(method, path, handler) ==
  /\ nreg < MaxRegs
  /\ Registration(on(trees, method, path, handler), method, path, handler)

RouterAny(path, handler) ==
  /\ nreg < MaxRegs
  /\ Registration(any(trees, path, handler), "ANY", path, handler)

RouterWs(path, handlers) ==
  /\ nreg < MaxRegs
  /\ Registration(ws(trees, path, handlers), "WS", path, handlers)

RouterFind(method, path) ==
  /\ found' = [method |-> method, path |-> path,
               result |-> findCall(trees, method, path).result]
  /\ trees' = findCall(trees, method, path).trees
  /\ UNCHANGED <<nreg, regErr, lastPath, regs, chainVars, appVars, reqs, ctxVars>>

RouterNext ==
  \/ \E m \in RouterMethods, p \in RouterPatterns : RouterOn(m, p, FreshHandler)
  \/ \E p \in AnyPatterns : RouterAny(p, FreshHandler)
  \/ \E p \in WsPatterns : RouterWs(p, FreshWsHandlers)
  \/ \E m \in FindMethods, p \in FindPaths : RouterFind(m, p)

RouterSpec == Init /\ [][RouterNext]_vars

\* a route for (method, path) has been registered
Registered(method, path) ==
  \E n \in DOMAIN regs : regs[n].method = method /\ regs[n].path = path

\* whether a path (as segments) is an instance of a pattern (as segments)
RECURSIVE MatchSegs(_, _)
MatchSegs(ps, xs) ==
  IF Len(ps) = 0 THEN Len(xs) = 0
  ELSE IF Len(xs) = 0 THEN FALSE
  ELSE IF SegKind(Head(ps)) = "Wildcard" THEN Len(ps) = 1
  ELSE IF SegKind(Head(ps)) = "Param" THEN MatchSegs(Tail(ps), Tail(xs))
  ELSE Head(ps) = Head(xs) /\ MatchSegs(Tail(ps), Tail(xs))

Matches(pattern, path) == MatchSegs(Segments(pattern), Segments(path))

C10_WitnessNoTree ==
  /\ Registered("GET", PA)
  /\ ~HasTree(trees, "PUT")
  /\ found = [method |-> "PUT", path |-> PA, result |-> NOT_FOUND]

\* the path strings without a leading "/" that a registration may be given
BadPaths == {PNoSlash, <<>>, <<"a", "/", "b">>, <<":", "i">>}

\* C11: every registration operation (on, any, the per-verb methods and any
\* of Bao through Router.register, ws) throws when the path does not begin
\* with "/", whatever the method and the handler, and leaves the trees as
\* they were; no registration call that returned was given such a path.
C11_PathMustBeginWithSlash ==
  /\ \A n \in DOMAIN regs : StartsWithSlash(regs[n].path)
  /\ \A p \in BadPaths : \A h \in Handlers :
       /\ \A m \in {httpMethods[i] : i \in DOMAIN httpMethods} :
            /\ on(trees, m, p, h) = [ok |-> FALSE, trees |-> trees]
            /\ register(trees, m, p, h) = [ok |-> FALSE, trees |-> trees]
       /\ any(trees, p, h) = [ok |-> FALSE, trees |-> trees]
       /\ register(trees, "ANY", p, h) = [ok |-> FALSE, trees |-> trees]
       /\ ws(trees, p, h) = [ok |-> FALSE, trees |-> trees]

\* a first registration that threw and left the router without any tree
C11_Witness ==
  /\ nreg = 1
  /\ regErr
  /\ regs = <<>>
  /\ trees = <<>>

\* the nine standard methods, and some methods outside them
StandardMethods ==
  {"GET", "HEAD", "POST", "PUT", "DELETE", "CONNECT", "OPTIONS", "TRACE", "PATCH"}
OtherMethods == {"WS", "PROPFIND", "get", ""}

\* C12: a call of any(path, handler) that returns has bound the handler under
\* each of the nine standard methods (find(m, path) returns it for each) and
\* under no other method: no other tree is created or changed.
C12_AnyRegistersNineMethods ==
  [][Len(regs') > Len(regs) + 1 =>
       LET call == regs'[Len(regs')]
       IN /\ \A m \in StandardMethods :
               find(trees', m, call.path).handler = call.handler
          /\ \A m \in OtherMethods :
               /\ find(trees', m, call.path).handler # call.handler
               /\ HasTree(trees', m) = HasTree(trees, m)
               /\ HasTree(trees, m) => trees'[m] = trees[m]
          /\ DOMAIN trees' \subseteq DOMAIN trees \cup StandardMethods]_vars

C12_Witness ==
  /\ nreg = 1
  /\ Len(regs) = 9
  /\ ~HasTree(trees, "WS")
  /\ found = [method |-> "PUT", path |-> PA,
              result |-> [handler |-> regs[1].handler, params |-> NoParams]]

C31_FindReadOnly ==
  [][nreg' = nreg =>
       /\ DOMAIN trees' = DOMAIN trees
       /\ trees' = trees
       /\ regs' = regs
       /\ before' = before /\ after' = after
       /\ found'.result = find(trees', found'.method, found'.path)
       /\ \A m \in FindMethods : \A p \in FindPaths :
            find(trees', m, p) = find(trees, m, p)]_vars

\* after a registration, a find for a method that has no tree returned the
\* not-found value and there still is no tree for that method
C31_Witness ==
  /\ nreg > 0
  /\ trees # <<>>
  /\ found.method = "PUT"
  /\ found.path = PA
  /\ found.result = NOT_FOUND
  /\ ~HasTree(trees, "PUT")

\* a find that returned a bound handler with a parameter, the trees being
\* those left by the last registration
C31_WitnessHit ==
  /\ nreg = MaxRegs
  /\ found.result.handler # NoHandler
  /\ found.result.params # NoParams

\* the routes bound by ws / by on and any
WsRegs == {n \in DOMAIN regs : regs[n].method = "WS"}
HttpRegs == {n \in DOMAIN regs : regs[n].method # "WS"}

\* C33: HTTP and WebSocket routes are disjoint namespaces.  No find for one of
\* the nine standard methods returns handlers bound by ws, the WS lookup
\* returns no handler bound by on or any, and a ws call changes no tree but
\* the WS tree and no result of a lookup under a standard method.
C33_DisjointNamespaces ==
  [][/\ \A p \in FindPaths :
          /\ \A m \in StandardMethods : \A n \in WsRegs' :
               find(trees', m, p).handler # regs'[n].handler
          /\ \A n \in HttpRegs' :
               find(trees', "WS", p).handler # regs'[n].handler
     /\ (WsRegs' # WsRegs) =>
          /\ DOMAIN trees' = DOMAIN trees \cup {"WS"}
          /\ \A m \in DOMAIN trees \ {"WS"} : trees'[m] = trees[m]
          /\ \A m \in StandardMethods : \A p \in FindPaths :
               find(trees', m, p) = find(trees, m, p)
     /\ (HttpRegs' # HttpRegs /\ HasTree(trees, "WS")) =>
          /\ HasTree(trees', "WS")
          /\ trees'["WS"] = trees["WS"]]_vars

\* the same path is bound under GET and in the WS tree; the WS lookup of it
\* returned the handlers given to ws and the GET lookup returns the handler
\* given to on
C33_Witness ==
  /\ \E n \in WsRegs, k \in HttpRegs :
       /\ regs[n].path = PA
       /\ regs[k] = Reg("GET", PA, regs[k].handler)
       /\ found = [method |-> "WS", path |-> PA,
                   result |-> [handler |-> regs[n].handler, params |-> NoParams]]
       /\ find(trees, "GET", PA).handler = regs[k].handler
       /\ regs[n].handler # regs[k].handler

-----------------------------------------------------------------------------
(* One route tree on its own: patterns registered under GET and looked up *)

MaxTreeRegs == 3  \* registration calls in the tree specification

PParam2 == <<"/", ":", "i", "/", ":", "j">>
PAParam == <<"/", "a", "/", ":", "j">>
PAWild == <<"/", "a", "/", "*", "r">>
PMB == <<"/", "m", "/", "b">>
PABM == <<"/", "a", "/", "b", "/", "m">>

TreePatterns == {PA, PAB, PParam, PWild, PWildMid, PParam2, PAParam, PAWild}
TreePaths == {PRoot, PA, PAB, PABM, PMissing, PMB}

TreeOn(path, handler) ==
  /\ nreg < MaxTreeRegs
  /\ Registration(on(trees, "GET", path, handler), "GET", path, handler)

TreeFind(path) == RouterFind("GET", path)

TreeNext ==
  \/ \E p \in TreePatterns : TreeOn(p, FreshHandler)
  \/ \E p \in TreePaths : TreeFind(p)

TreeSpec == Init /\ [][TreeNext]_vars

\* a path all of whose segments are static
Literal(path) ==
  /\ StartsWithSlash(path)
  /\ \A i \in DOMAIN Segments(path) : SegKind(Segments(path)[i]) = "Static"

\* registration n is the most recent one of its method and pattern
Latest(n) ==
  \A k \in DOMAIN regs :
    k > n => ~(regs[k].method = regs[n].method /\ regs[k].path = regs[n].path)

\* C13 (as claimed): for every registered (method, literal path, handler),
\* find(method, literal path) returns exactly that handler, without params.
C13_EveryRegisteredTripleFound ==
  \A n \in DOMAIN regs :
    Literal(regs[n].path) =>
      find(trees, regs[n].method, regs[n].path)
        = [handler |-> regs[n].handler, params |-> NoParams]

\* C13 (amended): for every registered (method, literal path, handler) that
\* no later registration of the same method and path has replaced, find
\* returns exactly that handler, without params.
C13_LiteralRoundTrip ==
  \A n \in DOMAIN regs :
    (Literal(regs[n].path) /\ Latest(n)) =>
      find(trees, regs[n].method, regs[n].path)
        = [handler |-> regs[n].handler, params |-> NoParams]

C13_Witness ==
  /\ Len(regs) = 3
  /\ regs[1].path = PA
  /\ regs[2].path = PParam
  /\ regs[3].path = PAB
  /\ found = [method |-> "GET", path |-> PA,
              result |-> [handler |-> regs[1].handler, params |-> NoParams]]

\* the most recent registrations of the patterns registered under a method
LatestRegs(method) == {n \in DOMAIN regs : regs[n].method = method /\ Latest(n)}

\* Of the registrations cands, whose patterns agree with the choices made on
\* the first k - 1 segments, those that the precedence rule selects for the
\* path segments segs from segment k on: Static before Param before Wildcard.
RECURSIVE Preferred(_, _, _)
Preferred(cands, segs, k) ==
  LET pat(n) == Segments(regs[n].path)
      kindAt(n) == IF Len(pat(n)) >= k THEN SegKind(pat(n)[k]) ELSE "none"
      S == {n \in cands : kindAt(n) = "Static" /\ pat(n)[k] = segs[k]}
      P == {n \in cands : kindAt(n) = "Param"}
      W == {n \in cands : kindAt(n) = "Wildcard"}
  IN IF k > Len(segs) THEN {n \in cands : Len(pat(n)) = k - 1}
     ELSE IF S # {} THEN Preferred(S, segs, k + 1)
     ELSE IF P # {} THEN Preferred(P, segs, k + 1)
     ELSE W

\* some pattern registered under GET has the static segment seg at level k
\* below the segments before
StaticAt(before_, seg) ==
  \E n \in DOMAIN regs :
    LET pat == Segments(regs[n].path)
    IN /\ Len(pat) > Len(before_)
       /\ SubSeq(pat, 1, Len(before_)) = before_
       /\ pat[Len(before_) + 1] = seg

\* C14: the handler find returns is the one the precedence rule selects from
\* the set of registered patterns (at each level the Static child, else the
\* Param child, else the Wildcard child), whatever the order in which they were
\* registered; with /:i and /*r both registered a one-segment path without a
\* static route of its own gets the handler of /:i, and likewise one level
\* down with /a/:j and /a/*r.
C14_MatchPrecedence ==
  /\ \A x \in TreePaths :
       LET chosen == Preferred(LatestRegs("GET"), Segments(x), 1)
           res == find(trees, "GET", x)
       IN IF chosen = {} THEN res = NOT_FOUND
          ELSE \A n \in chosen : res.handler = regs[n].handler
  /\ \A n, w \in LatestRegs("GET") :
       /\ (regs[n].path = PParam /\ regs[w].path = PWild /\ ~StaticAt(<<>>, <<"m">>))
            => find(trees, "GET", PMissing).handler = regs[n].handler
       /\ (regs[n].path = PAParam /\ regs[w].path = PAWild /\ ~StaticAt(<<<<"a">>>>, <<"b">>))
            => find(trees, "GET", PAB).handler = regs[n].handler

\* the wildcard was registered first, the parameter after it
C14_Witness ==
  /\ Len(regs) = 2
  /\ regs[1].path = PAWild
  /\ regs[2].path = PAParam
  /\ found.method = "GET" /\ found.path = PAB
  /\ found.result.handler = regs[2].handler

\* the parameter was registered first, the wildcard after it
C14_WitnessParamFirst ==
  /\ Len(regs) = 3
  /\ regs[1].path = PParam
  /\ regs[2].path = PWild
  /\ regs[3].path = PA
  /\ found.method = "GET" /\ found.path = PMissing
  /\ found.result.handler = regs[1].handler

\* the positions of the segments of a kind in a pattern
KindPositions(pat, kind) == {i \in DOMAIN pat : SegKind(pat[i]) = kind}

\* the registrations whose handler a lookup returned
BoundBy(res) == {n \in DOMAIN regs : regs[n].handler = res.handler}

\* C15: when find returns the handler of a pattern, every ":name" segment of
\* the pattern has captured the path segment at its own position, which holds
\* no "/", as name -> value in params; a pattern with k Param segments (of
\* different names) yields exactly k entries besides that of its Wildcard.
C15_ParamCapture ==
  \A x \in TreePaths :
    LET res == find(trees, "GET", x)
        segs == Segments(x)
    IN \A n \in BoundBy(res) :
         LET pat == Segments(regs[n].path)
             ps == KindPositions(pat, "Param")
             wps == KindPositions(pat, "Wildcard")
         IN /\ \A i \in ps :
                 /\ i <= Len(segs)
                 /\ SegName(pat[i]) \in DOMAIN res.params
                 /\ res.params[SegName(pat[i])] = segs[i]
                 /\ \A c \in DOMAIN segs[i] : segs[i][c] # "/"
            /\ Cardinality(DOMAIN res.params) = Cardinality(ps) + Cardinality(wps)
            /\ DOMAIN res.params = {SegName(pat[i]) : i \in ps \cup wps}

C15_Witness ==
  /\ \E n \in DOMAIN regs : regs[n].path = PParam
  /\ \E n \in DOMAIN regs : regs[n].path = PParam2
  /\ found.method = "GET" /\ found.path = PMB
  /\ found.result.handler # NoHandler
  /\ found.result.params = (<<"i">> :> <<"m">>) @@ (<<"j">> :> <<"b">>)

\* the segments of a path from position w on, joined by "/"
Remainder(segs, w) == Join(SubSeq(segs, w, Len(segs)))

C16_WitnessOneSegment ==
  /\ Len(regs) = 1
  /\ regs[1].path = PAWild
  /\ found = [method |-> "GET", path |-> PAB,
              result |-> [handler |-> regs[1].handler,
                          params |-> (<<"r">> :> <<"/", "b">>)]]

\* patterns in which a Wildcard segment is followed by further segments
WildMidPatterns ==
  {PWildMid, <<"/", "a", "/", "*", "r", "/", "b">>, <<"/", "*", "r", "/", ":", "i">>,
   <<"/", "*", "r", "/", "*", "s">>}

\* C17: registering a pattern whose Wildcard segment is followed by further
\* segments throws at registration and binds nothing (lookups return what
\* they returned before); no registration that returned was given such a
\* pattern, and in every reachable tree a Wildcard node has no children.
C17_NonTerminalWildcardRejected ==
  /\ \A n \in DOMAIN regs :
       LET pat == Segments(regs[n].path)
       IN KindPositions(pat, "Wildcard") \subseteq {Len(pat)}
  /\ \A p \in WildMidPatterns : \A h \in AppHandlers :
       LET r == on(trees, "GET", p, h)
       IN /\ ~r.ok
          /\ \A x \in TreePaths : find(r.trees, "GET", x) = find(trees, "GET", x)
  /\ \A m \in DOMAIN trees : \A q \in DOMAIN trees[m] :
       \A i \in 1..(Len(q) - 1) : q[i] # WildcardKey

\* a registration of /*r/b threw after a Wildcard route had been bound
C17_Witness ==
  /\ nreg = 2
  /\ regErr
  /\ Len(regs) = 1
  /\ regs[1].path = PWild
  /\ <<WildcardKey>> \in DOMAIN trees["GET"]

\* C18: a pattern already registered under a method can be registered again
\* without the call throwing; from then on no find returns the handler of
\* the earlier registration, and where the pattern is the only one of its
\* method every path that matches it gets the most recent handler.
C18_LastRegistrationWins ==
  /\ \A n \in DOMAIN regs : \A h \in Handlers :
       on(trees, regs[n].method, regs[n].path, h).ok
  /\ \A e, n \in DOMAIN regs :
       (e < n /\ regs[e].method = regs[n].method /\ regs[e].path = regs[n].path) =>
         /\ \A x \in TreePaths :
              find(trees, regs[n].method, x).handler # regs[e].handler
         /\ (Latest(n) /\ \A k \in DOMAIN regs : regs[k].path = regs[n].path) =>
              \A x \in TreePaths :
                Matches(regs[n].path, x) =>
                  find(trees, regs[n].method, x).handler = regs[n].handler

C18_Witness ==
  /\ Len(regs) = 3
  /\ \A n \in DOMAIN regs : regs[n].path = PParam
  /\ regs[1].handler # regs[3].handler
  /\ found.method = "GET" /\ found.path = PA
  /\ found.result.handler = regs[3].handler

\* path strings of every shape: well formed, empty, without a leading "/",
\* with a trailing "/" and with an empty segment
AnyPaths ==
  TreePaths \cup {<<>>, PNoSlash, <<"/", "a", "/">>, <<"/", "/", "a">>, PParam, PWild}

C19_WitnessParamNode ==
  /\ Len(regs) = 1
  /\ regs[1].path = PParam2
  /\ found = [method |-> "GET", path |-> PMissing, result |-> NOT_FOUND]

-----------------------------------------------------------------------------
(* Context operations applied in any order to Contexts of their own *)

CtxRequests ==
  {[method |-> "GET", path |-> PRoot, accept |-> a, referrer |-> "", origin |-> "",
    upgrade |-> ""] :
     a \in {"none", "text/html"}}
CtxOptions == {NoOptions, Status(404)}
RawResponses == {Response(Text("raw"), Status(201))}
RedirectUrls == {"back", "/a b"}

Op(op, target, out) ==
  [op |-> op, target |-> target, ret |-> out.ret, threw |-> out.threw]

CtxApply(op, target, out) ==
  /\ Len(cxlog) < MaxOps
  /\ cx' = out.heap
  /\ cxlog' = Append(cxlog, Op(op, target, out))
  /\ UNCHANGED <<routerVars, chainVars, appVars, reqs>>

CtxNew(req) ==
  /\ Len(cx) < MaxCtx
  /\ CtxApply("new", Len(cx) + 1, Returned(Append(cx, NewContext(req)), Len(cx) + 1))

CtxForceSend(i) == CtxApply("forceSend", i, forceSend(cx, i))
CtxSendText(i, options) == CtxApply("sendText", i, sendText(cx, i, HelloWorld, options))
CtxSendJson(i, options) == CtxApply("sendJson", i, sendJson(cx, i, "{}", options))
CtxSendPrettyJson(i, options) ==
  CtxApply("sendPrettyJson", i, sendPrettyJson(cx, i, "{}", options))
CtxSendEmpty(i, options) == CtxApply("sendEmpty", i, sendEmpty(cx, i, options))
CtxSendRaw(i, res) == CtxApply("sendRaw", i, sendRaw(cx, i, res))
CtxRedirect(i, url) == CtxApply("redirect", i, redirect(cx, i, url, "", NoOptions))

CtxNext ==
  \/ \E req \in CtxRequests : CtxNew(req)
  \/ \E i \in DOMAIN cx : CtxForceSend(i)
  \/ \E i \in DOMAIN cx, o \in CtxOptions : CtxSendText(i, o)
  \/ \E i \in DOMAIN cx, o \in CtxOptions : CtxSendJson(i, o)
  \/ \E i \in DOMAIN cx, o \in CtxOptions : CtxSendPrettyJson(i, o)
  \/ \E i \in DOMAIN cx, o \in CtxOptions : CtxSendEmpty(i, o)
  \/ \E i \in DOMAIN cx, res \in RawResponses : CtxSendRaw(i, res)
  \/ \E i \in DOMAIN cx, url \in RedirectUrls : CtxRedirect(i, url)

CtxSpec == Init /\ [][CtxNext]_vars

\* C3: a freshly created Context is open with no response, and no Context
\* operation unlocks a Context: once isLocked() is true it stays true.
C3_LockIsOneWay ==
  [][/\ Len(cx') > Len(cx) =>
          /\ ~isLocked(cx', Len(cx'))
          /\ cx'[Len(cx')].res = Null
     /\ \A i \in DOMAIN cx : isLocked(cx, i) => (i \in DOMAIN cx' /\ isLocked(cx', i))]_vars

C3_Witness ==
  /\ Len(cxlog) = 3
  /\ cxlog[2].op = "forceSend"
  /\ cxlog[3].op \in {"sendText", "redirect", "sendRaw"}
  /\ cxlog[3].target = cxlog[2].target
  /\ isLocked(cx, cxlog[3].target)

\* C4: forceSend() changes nothing of the Context but its lock flag, returns
\* the Context it was called on, and called on a locked Context it changes
\* nothing at all.
C4_ForceSendIdempotent ==
  [][(Len(cxlog') > Len(cxlog) /\ cxlog'[Len(cxlog')].op = "forceSend") =>
       LET call == cxlog'[Len(cxlog')]
           i == call.target
       IN /\ call.ret = i
          /\ ~call.threw
          /\ cx' = [cx EXCEPT ![i].forceSend = TRUE]
          /\ isLocked(cx, i) => cx' = cx]_vars

C4_Witness ==
  /\ Len(cxlog) = 3
  /\ cxlog[2].op = "sendText"
  /\ cxlog[3].op = "forceSend"
  /\ cx[cxlog[3].target].res # Null

C4_WitnessTwice ==
  /\ Len(cxlog) = 3
  /\ cxlog[2].op = "forceSend"
  /\ cxlog[3].op = "forceSend"
  /\ cxlog[3].target = cxlog[2].target

-----------------------------------------------------------------------------
(* Properties of the dispatch pipeline *)

\* an invocation of a middleware or of the route handler
Pipeline(e) == e.ev = "call" /\ e.stage \in {"before", "handler", "after"}

Positions(r) == 1..Len(reqs[r].trace)

\* the pipeline of request r ended and fetch returned (no error was raised)
Returned_(r) ==
  /\ reqs[r].pc = "done"
  /\ \A k \in Positions(r) : reqs[r].trace[k].stage # "error"

\* the invocation returned a locked Context that carries a response
ForceSent(e) == Pipeline(e) /\ e.out.locked /\ e.out.res # Null

\* likewise for an invocation at any stage
ForceSentBy(e) == e.ev = "call" /\ e.out.locked /\ e.out.res # Null

\* C1 (as claimed): when a before-middleware attaches a response R and
\* force-sends, no later before-middleware, no route handler and no
\* after-middleware is invoked for the request, and fetch returns exactly R.
C1_ForceSendReturnsExactlyR ==
  \A r \in DOMAIN reqs : \A k \in Positions(r) :
    LET t == reqs[r].trace
    IN (t[k].stage = "before" /\ ForceSent(t[k])) =>
         /\ \A l \in Positions(r) : l > k => ~Pipeline(t[l])
         /\ reqs[r].pc = "done" => reqs[r].sent = t[k].out.res

\* C2: within one request the before-middleware run in registration order,
\* one at a time (each invocation has resolved before the next function is
\* invoked), all of them before the route handler, and the after-middleware
\* likewise after the handler; the handler sees in extra the write of the
\* last before-middleware that wrote.
C2_MiddlewareOrdering ==
  \A r \in DOMAIN reqs :
    LET t == reqs[r].trace
        calls(stage) == {k \in Positions(r) : t[k].ev = "call" /\ t[k].stage = stage}
        writers == {k \in calls("before") : t[k].did = "write"}
    IN /\ \A k \in Positions(r) :
            (Pipeline(t[k]) /\ k < Len(t)) =>
              \/ t[k + 1].stage = "error"
              \/ /\ t[k + 1].ev = "ret"
                 /\ t[k + 1].stage = t[k].stage
                 /\ t[k + 1].fn = t[k].fn
       /\ \A stage \in {"before", "after"} : \A k, l \in calls(stage) :
            /\ t[k].fn[1] = stage
            /\ k < l => t[k].fn[2] < t[l].fn[2]
       /\ \A h \in calls("handler") :
            /\ \A k \in calls("before") : k < h
            /\ {t[k].fn : k \in calls("before")} = {before[n] : n \in DOMAIN before}
            /\ \A k \in calls("after") : h + 1 < k
            /\ \A k \in writers :
                 (\A l \in writers : l <= k) =>
                    t[h].seen.extra["k"] = [stage |-> "before", fn |-> t[k].fn]

C2_Witness ==
  \E r \in DOMAIN reqs :
    LET t == reqs[r].trace
    IN /\ Len(before) = 2
       /\ Len(t) >= 6
       /\ t[1].did = "write" /\ t[3].did = "write"
       /\ t[5].stage = "handler"
       /\ t[5].seen.extra["k"].fn = <<"before", 2>>
       /\ \E k, l \in Positions(r) :
            k < l /\ t[k].ev = "call" /\ t[l].ev = "call"
                  /\ t[k].stage = "after" /\ t[l].stage = "after"

C6_EndToEnd ==
  \A r \in DOMAIN reqs :
    LET q == reqs[r]
        req == q.ctxs[q.orig].req
    IN (q.pc = "done" /\ before = <<>> /\ after = <<>> /\ req.method = "GET") =>
         /\ (Registered("GET", req.path) /\
             \E k \in Positions(r) : q.trace[k].stage = "handler" /\ q.trace[k].did = "text")
              => q.sent.status = 200 /\ q.sent.body = Text(HelloWorld)
         /\ (~Registered("GET", req.path) /\ served.notFoundHandler = "default")
              => q.sent.status = 404 /\ q.sent.body = Text("404 Not Found")

C6_Witness ==
  /\ before = <<>> /\ after = <<>>
  /\ Registered("GET", PRoot)
  /\ \E r \in DOMAIN reqs :
       /\ reqs[r].pc = "done"
       /\ reqs[r].ctxs[1].req = Request("GET", PRoot)
       /\ reqs[r].sent = Response(Text(HelloWorld), NoOptions)

C6_WitnessMissing ==
  /\ before = <<>> /\ after = <<>>
  /\ Registered("GET", PRoot)
  /\ \E r \in DOMAIN reqs :
       /\ reqs[r].pc = "done"
       /\ reqs[r].ctxs[1].req = Request("GET", PMissing)
       /\ reqs[r].sent.status = 404

\* C7: when the route handler returns a locked Context no after-middleware
\* is invoked; no middleware is ever invoked with a locked Context, and after
\* an invocation that returned a locked Context nothing more is invoked.
C7_HandlerLockSkipsAfter ==
  \A r \in DOMAIN reqs : \A k \in Positions(r) :
    LET t == reqs[r].trace
    IN /\ (t[k].ev = "call" /\ t[k].stage = "handler" /\ t[k].out.locked) =>
            \A l \in Positions(r) : ~(t[l].ev = "call" /\ t[l].stage = "after")
       /\ (t[k].ev = "call" /\ t[k].stage = "after") => ~t[k].seen.locked
       /\ (Pipeline(t[k]) /\ t[k].out.locked) =>
            \A l \in Positions(r) : l > k => ~Pipeline(t[l])

C7_Witness ==
  \E r \in DOMAIN reqs :
    /\ reqs[r].pc = "done"
    /\ Len(after) > 0
    /\ \E k \in Positions(r) :
         /\ reqs[r].trace[k].stage = "handler"
         /\ reqs[r].trace[k].did = "textForce"
    /\ reqs[r].sent = Response(Text(HelloWorld), NoOptions)

\* C8: when a middleware or the handler force-sends while the response is
\* absent, no error is raised: fetch returns, and what it returns is the
\* not-found handler's response.
C8_ForceSendWithoutResponse ==
  \A r \in DOMAIN reqs :
    (\E k \in Positions(r) :
        LET e == reqs[r].trace[k]
        IN Pipeline(e) /\ e.out.locked /\ e.out.res = Null) =>
      /\ reqs[r].pc # "raised"
      /\ \A k \in Positions(r) : reqs[r].trace[k].stage # "error"
      /\ reqs[r].pc = "done" =>
           reqs[r].sent = NotFoundResponse(served.notFoundHandler)

C8_Witness ==
  \E r \in DOMAIN reqs :
    /\ reqs[r].pc = "done"
    /\ \E k \in Positions(r) :
         LET e == reqs[r].trace[k]
         IN e.stage = "before" /\ e.did = "force" /\ e.out.res = Null
    /\ reqs[r].sent = Response(Text("404 Not Found"), Status(404))

\* C9: when a before-middleware raises, nothing more of the pipeline is
\* invoked for the request (no later middleware, no handler, no second
\* attempt), the error goes to the error boundary once, and the boundary's
\* result is the response: status 500 with the default error handler.
C9_FailurePropagation ==
  \A r \in DOMAIN reqs : \A k \in Positions(r) :
    LET t == reqs[r].trace
    IN (t[k].ev = "call" /\ t[k].stage = "before" /\ t[k].did = "throw") =>
         /\ \A l \in Positions(r) : l > k => (l = k + 1 /\ t[l].stage = "error")
         /\ \A l \in Positions(r) :
              (l # k /\ t[l].ev = "call") => t[l].fn # t[k].fn
         /\ reqs[r].pc \in {"raised", "done"}
         /\ reqs[r].pc = "done" =>
              /\ Len(t) = k + 1
              /\ reqs[r].sent = ErrorResponse(served.errorHandler)
              /\ served.errorHandler = "default" => reqs[r].sent.status = 500

C9_Witness ==
  \E r \in DOMAIN reqs :
    LET t == reqs[r].trace
    IN /\ reqs[r].pc = "done"
       /\ Len(before) = 2 /\ Len(after) > 0
       /\ Registered(reqs[r].ctxs[1].req.method, reqs[r].ctxs[1].req.path)
       /\ t[1].stage = "before" /\ t[1].did = "throw"
       /\ served.errorHandler = "default"
       /\ reqs[r].sent.status = 500

\* the route lookup of request r was made and returned the not-found sentinel
LookupMissed(r) == reqs[r].looked /\ reqs[r].route = NOT_FOUND

\* the not-found handler was invoked for request r
NotFoundInvoked(r) ==
  \E k \in Positions(r) : reqs[r].trace[k].stage = "notFound"

\* C20 (as claimed): whenever the route lookup of a request returns the
\* not-found sentinel the not-found handler is invoked, whatever the
\* middleware did to the Context, and its response is the response sent.
C20_NotFoundWheneverLookupMisses ==
  \A r \in DOMAIN reqs :
    (Returned_(r) /\ LookupMissed(r)) =>
      /\ NotFoundInvoked(r)
      /\ reqs[r].sent = NotFoundResponse(served.notFoundHandler)

\* C20 (amended): when the route lookup of a request returns the not-found
\* sentinel, the not-found handler is invoked and its response sent if the
\* Context's response at the end of the pipeline is unset or has status 404,
\* as it is when no middleware attached a response; a response of another
\* status that a before- or after-middleware attached is sent as it is and
\* the not-found handler is not invoked.
C20_NotFoundBoundary ==
  \A r \in DOMAIN reqs :
    (Returned_(r) /\ LookupMissed(r)) =>
      LET final == reqs[r].ctxs[reqs[r].cur].res
          attached == \E k \in Positions(r) : reqs[r].trace[k].out.res # Null
      IN /\ ~attached => final = Null
         /\ IF final = Null \/ final.status = 404
            THEN /\ NotFoundInvoked(r)
                 /\ reqs[r].sent = NotFoundResponse(served.notFoundHandler)
            ELSE /\ ~NotFoundInvoked(r)
                 /\ reqs[r].sent = final

C20_Witness ==
  \E r \in DOMAIN reqs :
    /\ Returned_(r) /\ LookupMissed(r)
    /\ served.notFoundHandler = "custom"
    /\ \E k \in Positions(r) :
         reqs[r].trace[k].stage = "before" /\ reqs[r].trace[k].did = "write"
    /\ \E k \in Positions(r) :
         reqs[r].trace[k].stage = "after" /\ reqs[r].trace[k].did = "write"
    /\ NotFoundInvoked(r)
    /\ reqs[r].sent = Response(Text("Route not found..."), NoOptions)

\* an after-middleware attached a text to the Context of an unmatched request
C20_WitnessAttached ==
  \E r \in DOMAIN reqs :
    /\ Returned_(r) /\ LookupMissed(r)
    /\ \E k \in Positions(r) :
         reqs[r].trace[k].stage = "after" /\ reqs[r].trace[k].did = "text"
    /\ reqs[r].sent = Response(Text(HelloWorld), NoOptions)

\* list a is list b with entries added at its end
IsPrefix(a, b) == Len(a) <= Len(b) /\ \A i \in DOMAIN a : a[i] = b[i]

\* C24: register(fn, position) puts fn at the end of the list that position
\* selects, leaves the other list as it is and returns the new length of the
\* list it extended; no step of the application removes or reorders an entry
\* of either list, and each list is the sequence of the functions passed to
\* before() (to after()) in call order.
C24_RegistrationAppendOnly ==
  [][/\ IsPrefix(before, before') /\ IsPrefix(after, after')
     /\ Len(before') + Len(after') <= Len(before) + Len(after) + 1
     /\ \A i \in DOMAIN before' : before'[i] = <<"before", i>>
     /\ \A i \in DOMAIN after' : after'[i] = <<"after", i>>
     /\ LET b == registerMw(before', after', NoFn, Before)
            a == registerMw(before', after', NoFn, After)
        IN /\ b.before = Append(before', NoFn) /\ b.after = after'
           /\ b.ret = Len(before') + 1
           /\ a.after = Append(after', NoFn) /\ a.before = before'
           /\ a.ret = Len(after') + 1]_vars

\* before() and after() were called twice each, in some order
C24_Witness ==
  /\ before = << <<"before", 1>>, <<"before", 2>> >>
  /\ after = << <<"after", 1>>, <<"after", 2>> >>
  /\ ~served.listening


\* the positions in the trace of request r of the invocations made at a stage
CallsAt(r, stage) ==
  {k \in Positions(r) : reqs[r].trace[k].ev = "call" /\ reqs[r].trace[k].stage = stage}

\* the Context of request r as it was when the before-list ended
AfterBeforeList(r) ==
  LET t == reqs[r].trace
      bs == {k \in Positions(r) : t[k].stage = "before"}
  IN IF bs = {} THEN NoView
     ELSE t[CHOOSE k \in bs : \A l \in bs : l <= k].out

\* C25: when the Context is not locked after the before-list and the lookup
\* finds no handler, no handler is invoked and the lookup leaves the Context
\* as the before-list left it (its response unset unless a before-middleware
\* attached one); the after-list is then run from its first function, in
\* registration order, up to its end or to the function that locks the
\* Context, and the not-found substitution is made only after that.
C25_AfterListRunsOnMiss ==
  \A r \in DOMAIN reqs :
    LookupMissed(r) =>
      LET q == reqs[r]
          t == q.trace
          afters == CallsAt(r, "after")
      IN /\ ~AfterBeforeList(r).locked
         /\ CallsAt(r, "handler") = {}
         /\ \A k \in afters :
              /\ t[k].fn = after[Cardinality({l \in afters : l <= k})]
              /\ (\A l \in afters : k <= l) => t[k].seen = AfterBeforeList(r)
         /\ afters = {} => View(q.ctxs[q.cur]) = AfterBeforeList(r)
         /\ Returned_(r) =>
              /\ \A n \in DOMAIN after :
                   \/ \E k \in afters : t[k].fn = after[n]
                   \/ \E k \in afters : t[k].fn[2] < n /\ t[k].out.locked
              /\ \A k \in Positions(r) :
                   t[k].stage = "notFound" =>
                     k = Len(t) /\ \A l \in afters : l < k

\* an unmatched request whose response was left unset by the before-list and
\* for which both after-middleware ran before the not-found handler
C25_Witness ==
  \E r \in DOMAIN reqs :
    /\ Returned_(r) /\ LookupMissed(r)
    /\ Len(before) > 0 /\ Len(after) = 2
    /\ AfterBeforeList(r).res = Null
    /\ Cardinality(CallsAt(r, "after")) = 2
    /\ NotFoundInvoked(r)
    /\ reqs[r].trace[Len(reqs[r].trace)].stage = "notFound"


-----------------------------------------------------------------------------
(* The application's handler fields assigned at any time, before and after *)
(* listen(): app.notFoundHandler = ..., app.errorHandler = ...             *)

HandlerChoices == {"default", "custom"}

AssignNotFoundHandler(h) ==
  /\ notFoundHandler # h
  /\ notFoundHandler' = h
  /\ UNCHANGED <<routerVars, chainVars, errorHandler, served, reqs, ctxVars>>

AssignErrorHandler(h) ==
  /\ errorHandler # h
  /\ errorHandler' = h
  /\ UNCHANGED <<routerVars, chainVars, notFoundHandler, served, reqs, ctxVars>>

HandlerNext ==
  \/ \E h \in HandlerChoices : AssignNotFoundHandler(h)
  \/ \E h \in HandlerChoices : AssignErrorHandler(h)
  \/ \E p \in RoutePaths, h \in AppHandlers : BaoGet(p, h)
  \/ Listen
  \/ \E r \in ReqIds, m \in ReqMethods, p \in ReqPaths : Fetch(r, m, p)
  \/ \E r \in DOMAIN reqs : BeforeNext(r)
  \/ \E r \in DOMAIN reqs : Route(r)
  \/ \E r \in DOMAIN reqs : HandlerResume(r)
  \/ \E r \in DOMAIN reqs : AfterNext(r)
  \/ \E r \in DOMAIN reqs : Respond(r)
  \/ \E r \in DOMAIN reqs : ErrorBoundary(r)

HandlerSpec == Init /\ [][HandlerNext]_vars

\* C28: listen() captures the handlers assigned to the application at that
\* moment; an assignment made afterwards changes the field only, not what the
\* server captured; and a request is answered by the captured handlers: the
\* not-found handler invoked and the error handler invoked are the captured
\* ones and their responses are the responses sent.
C28_HandlersCapturedAtListen ==
  [][/\ (~served.listening /\ served'.listening) =>
          /\ served'.notFoundHandler = notFoundHandler
          /\ served'.errorHandler = errorHandler
     /\ served.listening => served' = served
     /\ \A r \in DOMAIN reqs' :
          LET q == reqs'[r]
              t == q.trace
          IN /\ \A k \in 1..Len(t) :
                  /\ t[k].stage = "notFound" =>
                       /\ t[k].h = served'.notFoundHandler
                       /\ q.sent = NotFoundResponse(served'.notFoundHandler)
                  /\ t[k].stage = "error" =>
                       /\ t[k].h = served'.errorHandler
                       /\ q.sent = ErrorResponse(served'.errorHandler)]_vars

\* a custom not-found handler assigned after listen() is not the one invoked
C28_Witness ==
  \E r \in DOMAIN reqs :
    /\ served.notFoundHandler = "default"
    /\ notFoundHandler = "custom"
    /\ reqs[r].pc = "done"
    /\ reqs[r].trace = <<Event("call", "notFound", 0, NoFn, "default", "respond",
                                NoView, NoView)>>
    /\ reqs[r].sent = Response(Text("404 Not Found"), Status(404))

\* a custom error handler assigned before listen() answers a failed request,
\* the default assigned back afterwards does not
C28_WitnessBefore ==
  \E r \in DOMAIN reqs :
    /\ served.errorHandler = "custom"
    /\ errorHandler = "default"
    /\ reqs[r].pc = "done"
    /\ reqs[r].sent = Response(Text("Oh no! An error has occurred..."), NoOptions)


-----------------------------------------------------------------------------
(* The application with the CORS middleware: Bao.cors(config)              *)

\* the configuration Bao.cors takes when called without one
DefaultCors ==
  [allowedHeaders |-> <<>>, methods |-> <<>>, credentials |-> FALSE,
   origins |-> {}, exposedHeaders |-> <<>>, maxAge |-> 5000]

\* configurations given in full
CorsConfigs ==
  {DefaultCors,
   [DefaultCors EXCEPT !.maxAge = 0],
   [DefaultCors EXCEPT !.maxAge = 0, !.credentials = TRUE],
   [DefaultCors EXCEPT !.maxAge = 0, !.origins = {"o"}]}

CorsMethods == {"GET", "OPTIONS"}
Origins == {"", "o"}             \* "": the request has no Origin header

CorsFn(config) == <<"cors", config>>

IsCors(fn) == fn # NoFn /\ fn[1] = "cors"

\* Bao.cors(config): registers the middleware in the before-list
BaoCors(config) ==
  /\ ~served.listening
  /\ Len(before) < MaxMw
  /\ \A n \in DOMAIN before : ~IsCors(before[n])
  /\ before' = registerMw(before, after, CorsFn(config), Before).before
  /\ after' = registerMw(before, after, CorsFn(config), Before).after
  /\ UNCHANGED <<routerVars, appVars, reqs, ctxVars>>

BaoOptions(path, handler) ==
  /\ ~served.listening
  /\ nreg < MaxRoutes
  /\ handleMethod("OPTIONS", path, handler)

\* fetch of a request that carries the Origin header origin
CorsFetch(r, method, path, origin) ==
  /\ served.listening
  /\ r \notin DOMAIN reqs
  /\ reqs' = (r :>
       [ctxs |-> <<NewContext([Request(method, path) EXCEPT !.origin = origin])>>,
        orig |-> 1, cur |-> 1,
        pc |-> "before", i |-> 1, pending |-> 0, route |-> NOT_FOUND,
        looked |-> FALSE, trace |-> <<>>, sent |-> Null]) @@ reqs
  /\ UNCHANGED <<routerVars, chainVars, appVars, ctxVars>>

CorsNext ==
  \/ \E c \in CorsConfigs : BaoCors(c)
  \/ BaoBefore(FreshBefore)
  \/ BaoAfter(FreshAfter)
  \/ \E p \in RoutePaths, h \in AppHandlers : BaoGet(p, h)
  \/ \E p \in RoutePaths, h \in AppHandlers : BaoOptions(p, h)
  \/ Listen
  \/ \E r \in ReqIds, m \in CorsMethods, o \in Origins : CorsFetch(r, m, PRoot, o)
  \/ \E r \in DOMAIN reqs : BeforeNext(r)
  \/ \E r \in DOMAIN reqs : BeforeResume(r)
  \/ \E r \in DOMAIN reqs : Route(r)
  \/ \E r \in DOMAIN reqs : HandlerResume(r)
  \/ \E r \in DOMAIN reqs : AfterNext(r)
  \/ \E r \in DOMAIN reqs : AfterResume(r)
  \/ \E r \in DOMAIN reqs : Respond(r)
  \/ \E r \in DOMAIN reqs : ErrorBoundary(r)

CorsSpec == Init /\ [][CorsNext]_vars

\* the invocation at position k of the trace of request r raised
Raised(r, k) ==
  \/ k = Len(reqs[r].trace) /\ reqs[r].pc = "raised"
  \/ k < Len(reqs[r].trace) /\ reqs[r].trace[k + 1].stage = "error"

\* C27 (as claimed): with the CORS middleware registered, every OPTIONS
\* request is answered at once with an empty 204 response: the middleware
\* attaches it and force-sends, nothing is invoked after it and the response
\* sent is the empty 204 response; for a request of any other method the
\* middleware returns the Context unlocked and the pipeline goes on.
C27_CorsAnswersOptions ==
  \A r \in DOMAIN reqs : \A k \in Positions(r) :
    LET q == reqs[r]
        t == q.trace
    IN (t[k].ev = "call" /\ IsCors(t[k].fn)) =>
         /\ ~Raised(r, k)
         /\ IF q.ctxs[q.orig].req.method = "OPTIONS"
            THEN /\ t[k].out.locked
                 /\ t[k].out.res = Response(NullBody, Status(204))
                 /\ \A l \in Positions(r) : l > k + 1 => ~Pipeline(t[l])
                 /\ q.pc = "done" => q.sent = Response(NullBody, Status(204))
            ELSE /\ ~t[k].out.locked
                 /\ q.pc = "done" =>
                      \/ CallsAt(r, "handler") # {}
                      \/ LookupMissed(r)


\* an OPTIONS request that the CORS middleware, having no header to set,
\* answered with the empty 204 response although a route matched
C27_SilentCorsAnswers204 ==
  \E r \in DOMAIN reqs :
    /\ reqs[r].pc = "done"
    /\ Registered("OPTIONS", PRoot)
    /\ reqs[r].ctxs[reqs[r].orig].req.method = "OPTIONS"
    /\ IsCors(reqs[r].trace[1].fn)
    /\ CallsAt(r, "handler") = {}
    /\ reqs[r].sent = Response(NullBody, Status(204))


-----------------------------------------------------------------------------
(* WebSocket routes: Bao.ws(path, handlers), the upgrade of a request and  *)
(* the callbacks of the accepted connection                                *)

MaxMsgs == 1      \* messages received on one connection

\* IWebSocketHandlers objects: one without and one with the upgrade hook
WsHandlers == {"ws", "wsUpgrade"}
HasUpgrade(handlers) == handlers = "wsUpgrade"

WsRoutePaths == {PA, PParam}
WsReqPaths == {PA, PMissing}

\* what the upgrade hook, a handler-shaped function, may do
HookKinds == {"pass", "deny", "deny404", "force", "throw"}

\* Bao.ws(path, handlers) -> Router.registerWebSocket -> BaoRouter.ws
BaoWs(path, handlers) ==
  /\ ~served.listening
  /\ nreg < MaxRoutes
  /\ Registration(ws(trees, path, handlers), "WS", path, handlers)

\* fetch of a request that asks for the upgrade to a WebSocket connection
WsFetch(r, path) ==
  /\ served.listening
  /\ r \notin DOMAIN reqs
  /\ reqs' = (r :>
       [ctxs |-> <<NewContext([Request("GET", path) EXCEPT !.upgrade = "websocket"])>>,
        orig |-> 1, cur |-> 1,
        pc |-> "before", i |-> 1, pending |-> 0, route |-> NOT_FOUND,
        looked |-> FALSE, trace |-> <<>>, sent |-> Null]) @@ reqs
  /\ UNCHANGED <<routerVars, chainVars, appVars, ctxVars>>

\* Router.handle for an upgrade request: the lookup in the WS tree, then the
\* upgrade hook if the handlers have one, else the upgrade itself
WsRoute(r) ==
  LET q == reqs[r]
      ctx == q.ctxs[q.cur]
      route == find(trees, "WS", ctx.path)
      q1 == [q EXCEPT !.route = route, !.looked = TRUE,
                      !.ctxs[q.cur].params = route.params]
  IN /\ q.pc = "route"
     /\ ctx.req.upgrade = "websocket"
     /\ IF isLocked(q.ctxs, q.cur)
        THEN reqs' = [reqs EXCEPT ![r] = [q EXCEPT !.pc = "respond"]]
        ELSE IF route.handler = NoHandler
        THEN reqs' = [reqs EXCEPT ![r] =
                        [q EXCEPT !.route = route, !.looked = TRUE,
                                  !.pc = "after", !.i = 1]]
        ELSE IF ~HasUpgrade(route.handler)
        THEN reqs' = [reqs EXCEPT ![r] = [q1 EXCEPT !.pc = "upgraded"]]
        ELSE \E kind \in HookKinds :
               reqs' = [reqs EXCEPT ![r] =
                          Invoke(q1, "upgrade", 1, NoFn, route.handler, kind, q1.ctxs,
                                 "upgradeAwait")]
     /\ UNCHANGED <<routerVars, chainVars, appVars, ctxVars>>

\* the hook's result resolves: a locked Context is answered with its
\* response, any other is upgraded
WsUpgradeResume(r) ==
  LET q == reqs[r]
      last == q.trace[Len(q.trace)]
  IN /\ q.pc = "upgradeAwait"
     /\ reqs' = [reqs EXCEPT ![r] =
          [q EXCEPT !.cur = q.pending,
                    !.pc = IF isLocked(q.ctxs, q.pending) THEN "respond"
                           ELSE "upgraded",
                    !.trace = Append(@, [last EXCEPT !.ev = "ret"])]]
     /\ UNCHANGED <<routerVars, chainVars, appVars, ctxVars>>

\* a callback of the connection of request r: router.handleWebSocket(ws).open()
WsCallback(r, name, pc) ==
  LET q == reqs[r]
  IN /\ reqs' = [reqs EXCEPT ![r] =
          [q EXCEPT !.pc = pc,
                    !.trace = Append(@, Event("call", "ws", 0, NoFn, q.route.handler,
                                              name, NoView, NoView))]]
     /\ UNCHANGED <<routerVars, chainVars, appVars, ctxVars>>

WsOpen(r) == reqs[r].pc = "upgraded" /\ WsCallback(r, "open", "open")

WsMessage(r) ==
  /\ reqs[r].pc = "open"
  /\ Cardinality({k \in Positions(r) : reqs[r].trace[k].did = "message"}) < MaxMsgs
  /\ WsCallback(r, "message", "open")

WsClose(r) == reqs[r].pc = "open" /\ WsCallback(r, "close", "closed")

WsNext ==
  \/ \E p \in WsRoutePaths, h \in WsHandlers : BaoWs(p, h)
  \/ SetNotFoundHandler
  \/ Listen
  \/ \E r \in ReqIds, p \in WsReqPaths : WsFetch(r, p)
  \/ \E r \in DOMAIN reqs : BeforeNext(r)
  \/ \E r \in DOMAIN reqs : WsRoute(r)
  \/ \E r \in DOMAIN reqs : WsUpgradeResume(r)
  \/ \E r \in DOMAIN reqs : AfterNext(r)
  \/ \E r \in DOMAIN reqs : Respond(r)
  \/ \E r \in DOMAIN reqs : ErrorBoundary(r)
  \/ \E r \in DOMAIN reqs : WsOpen(r)
  \/ \E r \in DOMAIN reqs : WsMessage(r)
  \/ \E r \in DOMAIN reqs : WsClose(r)

WsSpec == Init /\ [][WsNext]_vars

\* C26 (as claimed): the connection of an upgrade request is accepted, and
\* its callbacks run, only for a path found in the WS tree and only after the
\* upgrade hook, if the handlers have one, returned an unlocked Context; when
\* the hook attaches a response and force-sends, the connection is not
\* upgraded, none of its open, message and close callbacks run, and the
\* response sent is the one the hook attached.
C26_UpgradeHookRejects ==
  \A r \in DOMAIN reqs :
    LET q == reqs[r]
        t == q.trace
        hooks == CallsAt(r, "upgrade")
    IN /\ (q.pc \in {"upgraded", "open", "closed"} \/ CallsAt(r, "ws") # {}) =>
            /\ q.route = find(trees, "WS", q.ctxs[q.orig].path)
            /\ q.route.handler # NoHandler
            /\ HasUpgrade(q.route.handler) =>
                 \E k \in hooks :
                   /\ ~t[k].out.locked
                   /\ t[k + 1].ev = "ret"
                   /\ \A l \in CallsAt(r, "ws") : k + 1 < l
       /\ \A k \in hooks :
            ForceSentBy(t[k]) =>
              /\ q.pc \notin {"upgraded", "open", "closed"}
              /\ CallsAt(r, "ws") = {}
              /\ q.pc = "done" => q.sent = t[k].out.res


\* the same for the rejections whose status is not 404
C26_RejectionOtherThan404 ==
  \A r \in DOMAIN reqs :
    LET q == reqs[r]
        t == q.trace
        hooks == CallsAt(r, "upgrade")
    IN /\ (q.pc \in {"upgraded", "open", "closed"} \/ CallsAt(r, "ws") # {}) =>
            /\ q.route = find(trees, "WS", q.ctxs[q.orig].path)
            /\ q.route.handler # NoHandler
            /\ HasUpgrade(q.route.handler) =>
                 \E k \in hooks :
                   /\ ~t[k].out.locked
                   /\ t[k + 1].ev = "ret"
                   /\ \A l \in CallsAt(r, "ws") : k + 1 < l
       /\ \A k \in hooks :
            (ForceSentBy(t[k]) /\ t[k].out.res.status # 404) =>
              /\ q.pc \notin {"upgraded", "open", "closed"}
              /\ CallsAt(r, "ws") = {}
              /\ q.pc = "done" => q.sent = t[k].out.res

\* an upgrade request that the hook rejected with status 403
C26_Rejected403 ==
  \E r \in DOMAIN reqs :
    /\ reqs[r].pc = "done"
    /\ CallsAt(r, "upgrade") = {1}
    /\ reqs[r].trace[1].did = "deny"
    /\ reqs[r].sent = Response(NullBody, Status(403))

\* a connection accepted after its hook returned, opened, used and closed
C26_AcceptedAndClosed ==
  \E r \in DOMAIN reqs :
    /\ reqs[r].pc = "closed"
    /\ HasUpgrade(reqs[r].route.handler)
    /\ reqs[r].route.params = ("i" :> <<"a">>)
    /\ Cardinality(CallsAt(r, "ws")) = 3


-----------------------------------------------------------------------------
(* Several requests in flight at once.  The Context objects of all requests *)
(* live in one heap, cx; a request holds the index of its current Context.  *)
(* A function may return a Context other than the one it was given ("swap": *)
(* a new Context for the same request; "forceSwap": the same after locking  *)
(* the one it was given) or a result that never resolves ("hang").          *)

AwaitPcs == {"beforeAwait", "handlerAwait", "afterAwait"}

\* the paths requested
ConcPaths == {PRoot, PMissing}

\* the pending result of request q has resolved
Resolved(q) == q.pending # 0

\* fetch(req, server) for the r-th request: let ctx = new Context(req, server)
ConcFetch(r, path) ==
  /\ served.listening
  /\ r = Cardinality(DOMAIN reqs) + 1
  /\ cx' = Append(cx, NewContext(Request("GET", path)))
  /\ reqs' = (r :>
       [orig |-> Len(cx) + 1, cur |-> Len(cx) + 1, own |-> {Len(cx) + 1},
        pc |-> "before", i |-> 1, arg |-> 0, pending |-> 0,
        route |-> NOT_FOUND, sent |-> Null]) @@ reqs
  /\ UNCHANGED <<routerVars, chainVars, appVars, cxlog>>

\* request r invokes a function with its current Context and awaits the result
ConcInvoke(r, stage, fn, kind, q, awaitPc) ==
  LET out == Behave(kind, cx, q.cur, [stage |-> stage, fn |-> fn])
  IN /\ cx' = out.heap
     /\ reqs' = [reqs EXCEPT ![r] =
          [q EXCEPT !.pc = awaitPc, !.arg = q.cur,
                    !.pending = IF kind = "hang" THEN 0 ELSE out.ret,
                    !.own = @ \cup {out.ret}]]

\* one iteration of: for (const middleware of list)
\*   if (!ctx.isLocked()) ctx = await Promise.resolve(middleware(ctx));
ConcLoopNext(r, stage, list, kinds, awaitPc, donePc) ==
  LET q == reqs[r]
  IN /\ q.pc = stage
     /\ IF q.i > Len(list)
        THEN /\ reqs' = [reqs EXCEPT ![r] = [q EXCEPT !.pc = donePc]]
             /\ cx' = cx
        ELSE IF ~mayInvoke(cx, q.cur)
        THEN /\ reqs' = [reqs EXCEPT ![r] = [q EXCEPT !.i = q.i + 1]]
             /\ cx' = cx
        ELSE \E kind \in kinds :
               ConcInvoke(r, stage, nth(list, q.i), kind, q, awaitPc)
     /\ UNCHANGED <<routerVars, chainVars, appVars, cxlog>>

\* a resumption that goes on with the Context the function was given
ConcLoopResumeKeeps(r, stage, awaitPc) ==
  LET q == reqs[r]
  IN /\ q.pc = awaitPc
     /\ Resolved(q)
     /\ reqs' = [reqs EXCEPT ![r] = [q EXCEPT !.i = q.i + 1, !.pc = stage]]
     /\ UNCHANGED <<routerVars, chainVars, appVars, ctxVars>>

\* a resumption that goes on with the Context the function was given when
\* that Context is locked
ConcLoopResumeLockSticks(r, stage, awaitPc) ==
  LET q == reqs[r]
  IN /\ q.pc = awaitPc
     /\ Resolved(q)
     /\ reqs' = [reqs EXCEPT ![r] =
          [q EXCEPT !.cur = IF isLocked(cx, q.arg) THEN q.arg ELSE q.pending,
                    !.i = q.i + 1, !.pc = stage]]
     /\ UNCHANGED <<routerVars, chainVars, appVars, ctxVars>>

\* a resumption that waits until no earlier request is awaiting a result
ConcLoopResumeInTurn(r, stage, awaitPc) ==
  LET q == reqs[r]
  IN /\ q.pc = awaitPc
     /\ Resolved(q)
     /\ \A s \in DOMAIN reqs : s < r => reqs[s].pc \notin AwaitPcs
     /\ reqs' = [reqs EXCEPT ![r] =
          [q EXCEPT !.cur = q.pending, !.i = q.i + 1, !.pc = stage]]
     /\ UNCHANGED <<routerVars, chainVars, appVars, ctxVars>>

\* the awaited result resolves: ctx = <the Context the function returned>
ConcLoopResume(r, stage, awaitPc) ==
  LET q == reqs[r]
  IN /\ q.pc = awaitPc
     /\ Resolved(q)
     /\ reqs' = [reqs EXCEPT ![r] =
          [q EXCEPT !.cur = q.pending, !.i = q.i + 1, !.pc = stage]]
     /\ UNCHANGED <<routerVars, chainVars, appVars, ctxVars>>

ConcBeforeNext(r, kinds) ==
  ConcLoopNext(r, "before", before, kinds, "beforeAwait", "route")
ConcBeforeResume(r) == ConcLoopResume(r, "before", "beforeAwait")
ConcAfterNext(r, kinds) ==
  ConcLoopNext(r, "after", after, kinds, "afterAwait", "respond")
ConcAfterResume(r) == ConcLoopResume(r, "after", "afterAwait")

\* Router.handle, step (2): if not locked, find the handler and invoke it
ConcRoute(r, kinds) ==
  LET q == reqs[r]
      ctx == cx[q.cur]
      route == find(trees, ctx.method, ctx.path)
      q1 == [q EXCEPT !.route = route]
  IN /\ q.pc = "route"
     /\ IF isLocked(cx, q.cur)
        THEN /\ reqs' = [reqs EXCEPT ![r] = [q EXCEPT !.pc = "respond"]]
             /\ cx' = cx
        ELSE IF route.handler = NoHandler
        THEN /\ reqs' = [reqs EXCEPT ![r] = [q1 EXCEPT !.pc = "after", !.i = 1]]
             /\ cx' = cx
        ELSE \E kind \in kinds :
               ConcInvoke(r, "handler", NoFn, kind, q1, "handlerAwait")
     /\ UNCHANGED <<routerVars, chainVars, appVars, cxlog>>

\* Router.handle, step (3): adopt the handler's Context; if not locked, run after
ConcHandlerResume(r) ==
  LET q == reqs[r]
  IN /\ q.pc = "handlerAwait"
     /\ Resolved(q)
     /\ reqs' = [reqs EXCEPT ![r] =
          [q EXCEPT !.cur = q.pending, !.i = 1,
                    !.pc = IF isLocked(cx, q.pending) THEN "respond" ELSE "after"]]
     /\ UNCHANGED <<routerVars, chainVars, appVars, ctxVars>>

\* fetch: return res.status === 404 ? notFoundHandler(ctx) : res
ConcRespond(r) ==
  LET q == reqs[r]
  IN /\ q.pc = "respond"
     /\ reqs' = [reqs EXCEPT ![r] =
          [q EXCEPT !.pc = "done",
                    !.sent = fetchResult(handleResult(cx[q.cur]), served.notFoundHandler)]]
     /\ UNCHANGED <<routerVars, chainVars, appVars, ctxVars>>

-----------------------------------------------------------------------------
(* One request whose functions may replace the Context *)

SwapMwKinds == {"write", "deny", "swap", "forceSwap"}
SwapHandlerKinds == {"text", "forceSwap"}

SwapNext ==
  \/ BaoBefore(FreshBefore)
  \/ BaoAfter(FreshAfter)
  \/ \E p \in RoutePaths, h \in AppHandlers : BaoGet(p, h)
  \/ Listen
  \/ \E r \in ReqIds, p \in ConcPaths : ConcFetch(r, p)
  \/ \E r \in DOMAIN reqs : ConcBeforeNext(r, SwapMwKinds)
  \/ \E r \in DOMAIN reqs : ConcBeforeResume(r)
  \/ \E r \in DOMAIN reqs : ConcRoute(r, SwapHandlerKinds)
  \/ \E r \in DOMAIN reqs : ConcHandlerResume(r)
  \/ \E r \in DOMAIN reqs : ConcAfterNext(r, SwapMwKinds)
  \/ \E r \in DOMAIN reqs : ConcAfterResume(r)
  \/ \E r \in DOMAIN reqs : ConcRespond(r)

SwapSpec == Init /\ [][SwapNext]_vars

\* the Context the last function invoked for request q returned; before any
\* call, the Context fetch created
LastReturned(q) == IF q.pending = 0 THEN q.orig ELSE q.pending

\* the step from q to q2 invokes a function
Invokes(q, q2) == q.pc \notin AwaitPcs /\ q2.pc \in AwaitPcs

\* request q stands before a function of its stage: a middleware of the list,
\* or the handler of a matching route
HasFunction(q) ==
  CASE q.pc = "before" -> q.i <= Len(before)
    [] q.pc = "after" -> q.i <= Len(after)
    [] q.pc = "route" ->
         find(trees, cx[q.cur].method, cx[q.cur].path).handler # NoHandler
    [] OTHER -> FALSE

\* C23: Context threading.  Each middleware of a list is given exactly the
\* Context the previous middleware of that list returned (the first before
\* middleware, the one fetch created), and it is invoked only if that Context
\* is not locked.
C23_ContextThreading ==
  [][\A r \in DOMAIN reqs :
       LET q == reqs[r]
           q2 == reqs'[r]
       IN (q.pc \in {"before", "after"} /\ Invokes(q, q2)
             /\ (q.i > 1 \/ q.pc = "before"))
            => /\ q2.arg = LastReturned(q)
               /\ ~isLocked(cx, LastReturned(q))]_vars

\* the second before middleware is invoked with a Context that the first
\* returned in place of the one it was given
C23_Witness ==
  \E r \in DOMAIN reqs :
    /\ reqs[r].pc = "beforeAwait"
    /\ reqs[r].i = 2
    /\ reqs[r].arg # reqs[r].orig

\* C30: the lock belongs to the Context, not to the request.  A stage that has
\* a function to invoke (a middleware, or the handler of a matching route)
\* invokes it exactly when the Context returned by the last stage is not
\* locked, whatever the state of the Contexts the request held before.
C30_LockBelongsToContext ==
  [][\A r \in DOMAIN reqs :
       LET q == reqs[r]
           q2 == reqs'[r]
       IN (q # q2 /\ q.pc \in {"before", "after", "route"})
            => (Invokes(q, q2)
                  <=> (HasFunction(q) /\ ~isLocked(cx, LastReturned(q))))]_vars

\* the handler is invoked although the Context fetch created was force-sent
\* by a middleware, which returned another, unlocked Context
C30_Witness ==
  \E r \in DOMAIN reqs :
    /\ reqs[r].pc = "handlerAwait"
    /\ isLocked(cx, reqs[r].orig)
    /\ ~isLocked(cx, reqs[r].arg)

\* a middleware is skipped because the Context returned to the pipeline is
\* locked, while the one fetch created is not
C30_SkippedOnReturnedLock ==
  \E r \in DOMAIN reqs :
    /\ reqs[r].pc = "done"
    /\ ~isLocked(cx, reqs[r].orig)
    /\ isLocked(cx, reqs[r].cur)
    /\ reqs[r].sent = Response(NullBody, Status(403))

-----------------------------------------------------------------------------
(* Two requests in flight at once, whose functions may never resolve *)

ConcReqIds == {1, 2}
ConcMwKinds == {"write", "deny", "hang"}
ConcHandlerKinds == {"text", "hang"}

\* the steps of the pipeline of request r
ConcStep(r) ==
  \/ ConcBeforeNext(r, ConcMwKinds)
  \/ ConcBeforeResume(r)
  \/ ConcRoute(r, ConcHandlerKinds)
  \/ ConcHandlerResume(r)
  \/ ConcAfterNext(r, ConcMwKinds)
  \/ ConcAfterResume(r)
  \/ ConcRespond(r)

ConcNext ==
  \/ BaoBefore(FreshBefore)
  \/ BaoAfter(FreshAfter)
  \/ \E p \in RoutePaths, h \in AppHandlers : BaoGet(p, h)
  \/ Listen
  \/ \E r \in ConcReqIds, p \in ConcPaths : ConcFetch(r, p)
  \/ \E r \in DOMAIN reqs : ConcBeforeNext(r, ConcMwKinds)
  \/ \E r \in DOMAIN reqs : ConcBeforeResume(r)
  \/ \E r \in DOMAIN reqs : ConcRoute(r, ConcHandlerKinds)
  \/ \E r \in DOMAIN reqs : ConcHandlerResume(r)
  \/ \E r \in DOMAIN reqs : ConcAfterNext(r, ConcMwKinds)
  \/ \E r \in DOMAIN reqs : ConcAfterResume(r)
  \/ \E r \in DOMAIN reqs : ConcRespond(r)

ConcSpec == Init /\ [][ConcNext]_vars

\* the step creates request r
Fetched(r) == r \notin DOMAIN reqs /\ r \in DOMAIN reqs'

\* the step is a step of the pipeline of request r
StepOf(r) == r \in DOMAIN reqs /\ reqs'[r] # reqs[r]

\* the step leaves request s and every Context of s as they were
Untouched(s) ==
  /\ reqs'[s] = reqs[s]
  /\ \A i \in reqs[s].own : cx'[i] = cx[i]

\* C21: per-request isolation under interleaving.  fetch gives each request a
\* newly created Context (unlocked, no response, empty extra) that no other
\* request holds; a step of one request (a forceSend, a response attachment,
\* an extra write, any other) leaves every other request and its Contexts as
\* they were; and a request passes over a function it could invoke only when
\* its own current Context is locked.
C21_RequestIsolation ==
  [][/\ \A r \in ConcReqIds :
          Fetched(r) =>
            /\ cx'[reqs'[r].orig] = NewContext(cx'[reqs'[r].orig].req)
            /\ reqs'[r].orig \notin DOMAIN cx
            /\ \A s \in DOMAIN reqs : Untouched(s)
     /\ \A r \in DOMAIN reqs :
          StepOf(r) =>
            /\ \A s \in DOMAIN reqs \ {r} : Untouched(s)
            /\ \A s \in DOMAIN reqs \ {r} : reqs'[r].own \cap reqs[s].own = {}
            /\ (reqs[r].pc \in {"before", "after", "route"}
                  /\ HasFunction(reqs[r]) /\ ~Invokes(reqs[r], reqs'[r]))
                 => /\ reqs[r].cur \in reqs[r].own
                    /\ isLocked(cx, reqs[r].cur)]_vars

\* one request has been denied by a before middleware that force-sent its
\* Context and is still awaiting that middleware's result, while a request
\* created later has run its whole pipeline on an unlocked Context of its own
C21_Witness ==
  \E r, s \in DOMAIN reqs :
    /\ r < s
    /\ reqs[r].pc = "beforeAwait"
    /\ isLocked(cx, reqs[r].orig)
    /\ cx[reqs[r].orig].res = Response(NullBody, Status(403))
    /\ reqs[s].pc = "done"
    /\ ~isLocked(cx, reqs[s].cur)
    /\ Len(before) > 0
    /\ cx[reqs[s].cur].extra # cx[reqs[r].cur].extra
    /\ reqs[s].sent = sendText(cx, reqs[s].cur, HelloWorld, NoOptions).heap[reqs[s].cur].res

-----------------------------------------------------------------------------
(* Fair scheduling: a request whose next step can be taken is not left     *)
(* waiting for ever (the event loop runs every continuation that is ready) *)

FairConcSpec ==
  /\ Init
  /\ [][ConcNext]_vars
  /\ \A r \in ConcReqIds : WF_vars(r \in DOMAIN reqs /\ ConcStep(r))

\* request r awaits a result that never resolves
Hung(r) ==
  /\ r \in DOMAIN reqs
  /\ reqs[r].pc \in AwaitPcs
  /\ ~Resolved(reqs[r])

\* request r has received its response
Answered(r) == r \in DOMAIN reqs /\ reqs[r].pc = "done"

\* C22: a hung handler or middleware blocks only its own request.  Under fair
\* scheduling every request given to fetch eventually receives its response
\* unless one of its own functions never resolves, whatever the other
\* requests do.
C22_HungBlocksOnlyItsOwn ==
  \A r \in ConcReqIds : (r \in DOMAIN reqs) ~> (Answered(r) \/ Hung(r))

\* the first request is hung and a later request has received its response
C22_Witness ==
  \E r, s \in DOMAIN reqs :
    /\ r < s
    /\ Hung(r)
    /\ Answered(s)
    /\ reqs[s].sent # Null

-----------------------------------------------------------------------------
(* The dispatch of a request under fair scheduling: every function invoked *)
(* returns or throws, and a request whose next step can be taken takes it  *)

\* the steps of the dispatch of request r
RequestStep(r) ==
  \/ BeforeNext(r)
  \/ BeforeResume(r)
  \/ Route(r)
  \/ HandlerResume(r)
  \/ AfterNext(r)
  \/ AfterResume(r)
  \/ Respond(r)
  \/ ErrorBoundary(r)

\* an application with before and after middleware and GET routes, then the
\* dispatch of its requests
DispatchNext ==
  \/ BaoBefore(FreshBefore)
  \/ BaoAfter(FreshAfter)
  \/ \E p \in RoutePaths, h \in AppHandlers : BaoGet(p, h)
  \/ Listen
  \/ \E r \in ReqIds, m \in ReqMethods, p \in ReqPaths : Fetch(r, m, p)
  \/ \E r \in DOMAIN reqs : BeforeNext(r)
  \/ \E r \in DOMAIN reqs : BeforeResume(r)
  \/ \E r \in DOMAIN reqs : Route(r)
  \/ \E r \in DOMAIN reqs : HandlerResume(r)
  \/ \E r \in DOMAIN reqs : AfterNext(r)
  \/ \E r \in DOMAIN reqs : AfterResume(r)
  \/ \E r \in DOMAIN reqs : Respond(r)
  \/ \E r \in DOMAIN reqs : ErrorBoundary(r)

FairSpec ==
  /\ Init
  /\ [][DispatchNext]_vars
  /\ \A r \in ReqIds : WF_vars(r \in DOMAIN reqs /\ RequestStep(r))

\* the invocations of request r at a stage of the pipeline
PipelineCalls(r) ==
  {k \in DOMAIN reqs[r].trace :
     /\ reqs[r].trace[k].ev = "call"
     /\ reqs[r].trace[k].stage \in {"before", "handler", "after"}}

\* no function is invoked twice for request r: each invocation of a middleware
\* is that of another entry of its list, and the handler is invoked once at most
InvokedAtMostOnce(r) ==
  LET t == reqs[r].trace
  IN /\ \A j, k \in PipelineCalls(r) :
          (t[j].stage = t[k].stage /\ t[j].fn = t[k].fn) => j = k
     /\ \A k \in PipelineCalls(r) :
          /\ t[k].stage = "before" => t[k].fn = nth(before, t[k].idx)
          /\ t[k].stage = "after" => t[k].fn = nth(after, t[k].idx)
          /\ t[k].stage = "handler" => t[k].fn = NoFn

\* fetch has returned a response for request r
Responded(r) ==
  /\ r \in DOMAIN reqs
  /\ reqs[r].pc = "done"
  /\ reqs[r].sent # Null

\* C32: pipeline termination.  The dispatch of every request given to fetch
\* eventually produces a response, and during it each registered before- and
\* after-middleware is invoked at most once and the route handler at most once.
C32_PipelineTerminates ==
  /\ [](\A r \in DOMAIN reqs : InvokedAtMostOnce(r))
  /\ \A r \in ReqIds :
       (r \in DOMAIN reqs) ~> Responded(r)

\* a response was produced after two before middleware, the handler and an
\* after middleware were each invoked once
C32_Witness ==
  \E r \in DOMAIN reqs :
    /\ reqs[r].pc = "done"
    /\ reqs[r].sent # Null
    /\ Cardinality(CallsAt(r, "before")) = Len(before)
    /\ Len(before) >= 2
    /\ Cardinality(CallsAt(r, "handler")) = 1
    /\ Cardinality(CallsAt(r, "after")) = Len(after)
    /\ Len(after) >= 1


====
